---- MODULE Spec2Model ----
(***************************************************************************)
(* A model of the KeyCRM node of n8n-nodes-keycrm                          *)
(* (src/credentials/KeycrmApi.credentials.ts): the naming engine, the      *)
(* value normaliser, the body assembler, the pagination helpers and the    *)
(* per-item state machine of Keycrm.execute.                               *)
(*                                                                         *)
(* Conventions.                                                            *)
(*  - A JavaScript string that the code inspects character by character    *)
(*    (identifiers, API paths) is a sequence of one-character strings.     *)
(*  - A JavaScript value is a tagged record (Undef, Null, Bool, NumH, Str, *)
(*    Arr, Obj).  A number is counted in halves (NumH(3) is 1.5) so that   *)
(*    Math.trunc has something to truncate; NaN is its own value.          *)
(*  - An HTTP response is a record of the properties the code reads.       *)
(***************************************************************************)
EXTENDS Integers, Sequences, FiniteSets, TLC

VARIABLES
    pc,              \* position of execute: "item", "single", "page", "done", "thrown",
                     \* "awaitSingle" and "awaitPage" at an await of a request;
                     \* "fn" and "fn-done" when a function is applied on its own
    continueOnFail,  \* what this.continueOnFail() returns during the run
    nItems,          \* items.length
    inputData,       \* the input items execute has read so far
    itemIndex,       \* the loop variable of execute
    returnData,      \* the records pushed so far
    cur,             \* the item in progress: operation, parameters, request options
    page,            \* pagination loop: the page counter
    aggregatedItems, \* pagination loop: the accumulated items (by runs of pages)
    lastResponse,    \* pagination loop: the last raw response
    requests,        \* every HTTP request answered so far, in order (by runs of pages)
    inFlight,        \* the HTTP requests issued and not yet answered
    pageLog,         \* pagination loop: pages fetched, items extracted, server shape
    thrown,          \* the error execute threw, NoError before
    returned,        \* what execute returned: [done, data]
    fnArg,           \* the argument of a function applied on its own
    fnRes            \* the result of that application, Pending before

vars == <<pc, continueOnFail, nItems, inputData, itemIndex, returnData, cur, page,
          aggregatedItems, lastResponse, requests, inFlight, pageLog, thrown, returned,
          fnArg, fnRes>>

(***************************************************************************)
(* Bounds of the model.                                                    *)
(***************************************************************************)
MaxItems == 2
MaxPages == 3
MaxDepth == 2
LoopCap == 1002

(***************************************************************************)
(* Characters and strings.                                                 *)
(***************************************************************************)
LowerCase == <<"a", "b", "c", "d", "e", "f", "g", "h", "i", "j", "k", "l", "m",
               "n", "o", "p", "q", "r", "s", "t", "u", "v", "w", "x", "y", "z">>
UpperCase == <<"A", "B", "C", "D", "E", "F", "G", "H", "I", "J", "K", "L", "M",
               "N", "O", "P", "Q", "R", "S", "T", "U", "V", "W", "X", "Y", "Z">>
Digits == {"0", "1", "2", "3", "4", "5", "6", "7", "8", "9"}

Range(s) == {s[i] : i \in DOMAIN s}

IsAlnum(c) == c \in Range(LowerCase) \cup Range(UpperCase) \cup Digits

ToLowerChar(c) ==
    IF c \in Range(UpperCase)
    THEN LowerCase[CHOOSE i \in DOMAIN UpperCase : UpperCase[i] = c]
    ELSE c

ToLowerCase(s) == [i \in DOMAIN s |-> ToLowerChar(s[i])]

RECURSIVE DropNonAlnum(_)
DropNonAlnum(s) ==
    IF s = <<>> \/ IsAlnum(Head(s)) THEN s ELSE DropNonAlnum(Tail(s))

\* value.replace(/[^a-zA-Z0-9]+/g, '__')
RECURSIVE ReplaceNonAlnumRuns(_)
ReplaceNonAlnumRuns(s) ==
    IF s = <<>> THEN <<>>
    ELSE IF IsAlnum(Head(s)) THEN <<Head(s)>> \o ReplaceNonAlnumRuns(Tail(s))
    ELSE <<"_", "_">> \o ReplaceNonAlnumRuns(DropNonAlnum(s))

RECURSIVE DropLeadingUnderscores(_)
DropLeadingUnderscores(s) ==
    IF s # <<>> /\ Head(s) = "_" THEN DropLeadingUnderscores(Tail(s)) ELSE s

RECURSIVE DropTrailingUnderscores(_)
DropTrailingUnderscores(s) ==
    IF s # <<>> /\ s[Len(s)] = "_"
    THEN DropTrailingUnderscores(SubSeq(s, 1, Len(s) - 1))
    ELSE s

\* .replace(/^_+|_+$/g, '')
TrimUnderscores(s) == DropTrailingUnderscores(DropLeadingUnderscores(s))

(***************************************************************************)
(* Naming engine.                                                          *)
(***************************************************************************)
SEP == <<"_", "_">>
TokValue == <<"v", "a", "l", "u", "e">>
TokPath == <<"p", "a", "t", "h">>
TokQuery == <<"q", "u", "e", "r", "y">>
TokBody == <<"b", "o", "d", "y">>
TokInclude == <<"i", "n", "c", "l", "u", "d", "e">>
TokSort == <<"s", "o", "r", "t">>
TokGetAll == <<"g", "e", "t", "_", "a", "l", "l">>
TokOptions == <<"o", "p", "t", "i", "o", "n", "s">>
TokPage == <<"p", "a", "g", "e">>
TokLimit == <<"l", "i", "m", "i", "t">>
TokFilter == <<"f", "i", "l", "t", "e", "r">>
TokCustomFields == <<"c", "u", "s", "t", "o", "m", "_", "f", "i", "e", "l", "d", "s">>
TokFrom == <<"f", "r", "o", "m">>
TokTo == <<"t", "o">>
TokOptional == <<"o", "p", "t", "i", "o", "n", "a", "l">>
TokBinaryProperty == <<"b", "i", "n", "a", "r", "y", "_",
                       "p", "r", "o", "p", "e", "r", "t", "y">>
TokItems == <<"i", "t", "e", "m", "s">>

sanitizeParamToken(value) ==
    LET sanitized == ToLowerCase(TrimUnderscores(ReplaceNonAlnumRuns(value)))
    IN  IF sanitized = <<>> THEN TokValue ELSE sanitized

operationToken(operation) == sanitizeParamToken(operation.operationId)

\* field.apiPath || field.name: the empty string is falsy
OrElse(a, b) == IF a = <<>> THEN b ELSE a

pathParamName(operation, field) ==
    TokPath \o SEP \o operationToken(operation) \o SEP
        \o sanitizeParamToken(OrElse(field.apiPath, field.name))

querySimpleParamName(operation, field) ==
    TokQuery \o SEP \o operationToken(operation) \o SEP
        \o sanitizeParamToken(OrElse(field.apiPath, field.name))

queryIncludeParamName(operation) ==
    TokQuery \o SEP \o operationToken(operation) \o SEP \o TokInclude

querySortParamName(operation) ==
    TokQuery \o SEP \o operationToken(operation) \o SEP \o TokSort

queryGetAllParamName(operation) ==
    TokQuery \o SEP \o operationToken(operation) \o SEP \o TokGetAll

queryOptionsCollectionParamName(operation) ==
    TokQuery \o SEP \o operationToken(operation) \o SEP \o TokOptions

queryPageOptionParamName(operation) ==
    TokQuery \o SEP \o operationToken(operation) \o SEP \o TokOptions \o SEP \o TokPage

queryCustomFieldsFilterParamName(operation) ==
    TokQuery \o SEP \o operationToken(operation) \o SEP \o TokFilter
        \o SEP \o TokCustomFields

queryFilterCollectionParamName(operation) ==
    TokQuery \o SEP \o operationToken(operation) \o SEP \o TokFilter

queryFilterFieldParamName(operation, field) ==
    TokQuery \o SEP \o operationToken(operation) \o SEP \o TokFilter
        \o SEP \o sanitizeParamToken(field.name)

queryFilterFromParamName(operation, field) ==
    queryFilterFieldParamName(operation, field) \o SEP \o TokFrom

queryFilterToParamName(operation, field) ==
    queryFilterFieldParamName(operation, field) \o SEP \o TokTo

bodyFieldParamName(operation, field) ==
    TokBody \o SEP \o operationToken(operation) \o SEP
        \o sanitizeParamToken(OrElse(field.apiPath, field.apiKey))

bodyOptionalCollectionParamName(operation) ==
    TokBody \o SEP \o operationToken(operation) \o SEP \o TokOptional

bodyBinaryPropertyParamName(operation) ==
    TokBody \o SEP \o operationToken(operation) \o SEP \o TokBinaryProperty

(***************************************************************************)
(* JavaScript values.                                                      *)
(***************************************************************************)
Undef == [t |-> "undefined"]
Null == [t |-> "null"]
NaN == [t |-> "number", nan |-> TRUE]
Bool(b) == [t |-> "boolean", b |-> b]
NumH(h) == [t |-> "number", h |-> h]
Whole(n) == NumH(2 * n)
Str(s) == [t |-> "string", s |-> s]
Arr(a) == [t |-> "array", a |-> a]
Obj(o) == [t |-> "object", o |-> o]
EmptyObj == Obj(<<>>)

IsNaN(v) == v = NaN
IsNumber(v) == v.t = "number"
IsString(v) == v.t = "string"
IsArray(v) == v.t = "array"

\* typeof value === 'object' && value !== null && !Array.isArray(value)
isObject(value) == value.t = "object"

Keys(obj) == DOMAIN obj.o
Has(obj, key) == key \in DOMAIN obj.o
Get(obj, key) == IF key \in DOMAIN obj.o THEN obj.o[key] ELSE Undef
Put(obj, key, value) ==
    Obj([k \in DOMAIN obj.o \cup {key} |-> IF k = key THEN value ELSE obj.o[k]])

\* The strings of the model and what the string primitives make of them.
StrTrim(s) ==
    CASE s = " " -> ""
      [] s = " true " -> "true"
      [] s = " 2 " -> "2"
      [] OTHER -> s

StrLower(s) ==
    CASE s = "TRUE" -> "true"
      [] s = "False" -> "false"
      [] s = "Ada" -> "ada"
      [] OTHER -> s

\* Number(<string>): the trimmed text read as a number, the empty text as 0
StrToNumber(s) ==
    LET x == StrTrim(s)
    IN  CASE x = "" -> NumH(0)
          [] x = "0" -> NumH(0)
          [] x = "0.5" -> NumH(1)
          [] x = "1" -> NumH(2)
          [] x = "1.5" -> NumH(3)
          [] x = "2" -> NumH(4)
          [] x = "3" -> NumH(6)
          [] x = "-1" -> NumH(-2)
          [] OTHER -> NaN

\* String(<number>)
NumToStr(v) ==
    CASE v = NaN -> "NaN"
      [] v = NumH(0) -> "0"
      [] v = NumH(1) -> "0.5"
      [] v = NumH(2) -> "1"
      [] v = NumH(3) -> "1.5"
      [] v = NumH(4) -> "2"
      [] v = NumH(6) -> "3"
      [] v = NumH(-2) -> "-1"
      [] OTHER -> "<number>"

\* Number(value)
ToNumber(value) ==
    CASE value.t = "undefined" -> NaN
      [] value.t = "null" -> NumH(0)
      [] value.t = "boolean" -> IF value.b THEN NumH(2) ELSE NumH(0)
      [] value.t = "number" -> value
      [] value.t = "string" -> StrToNumber(value.s)
      [] value.t = "array" ->
            IF Len(value.a) = 0 THEN NumH(0)
            ELSE IF Len(value.a) = 1 /\ value.a[1].t = "number" THEN value.a[1]
            ELSE IF Len(value.a) = 1 /\ value.a[1].t = "string"
                 THEN StrToNumber(value.a[1].s)
            ELSE IF Len(value.a) = 1 /\ value.a[1].t \in {"undefined", "null"}
                 THEN NumH(0)
            ELSE NaN
      [] OTHER -> NaN

\* String(value)
JsString(value) ==
    CASE value.t = "undefined" -> "undefined"
      [] value.t = "null" -> "null"
      [] value.t = "boolean" -> IF value.b THEN "true" ELSE "false"
      [] value.t = "number" -> NumToStr(value)
      [] value.t = "string" -> value.s
      [] value.t = "array" -> IF Len(value.a) = 0 THEN "" ELSE "<array>"
      [] OTHER -> "[object Object]"

\* Boolean(value)
ToBoolean(value) ==
    CASE value.t \in {"undefined", "null"} -> FALSE
      [] value.t = "boolean" -> value.b
      [] value.t = "number" -> ~IsNaN(value) /\ value.h # 0
      [] value.t = "string" -> value.s # ""
      [] OTHER -> TRUE

\* Math.trunc on a number counted in halves
Trunc(v) ==
    IF IsNaN(v) THEN NaN
    ELSE IF v.h >= 0 THEN NumH((v.h \div 2) * 2)
    ELSE NumH(-(((-v.h) \div 2) * 2))

Positive(v) == ~IsNaN(v) /\ v.h > 0
LessThan(a, b) == ~IsNaN(a) /\ ~IsNaN(b) /\ a.h < b.h
\* the integer a whole JavaScript number stands for
AsInt(v) == v.h \div 2

isEmptyValue(value) ==
    CASE value.t \in {"undefined", "null"} -> TRUE
      [] value.t = "string" -> StrTrim(value.s) = ""
      [] value.t = "array" -> Len(value.a) = 0
      [] value.t = "object" -> DOMAIN value.o = {}
      [] OTHER -> FALSE

(***************************************************************************)
(* Value normaliser.                                                       *)
(***************************************************************************)
\* a normaliser that keeps a blank string
normalizePrimitiveValueKeepingBlank(field, value) ==
    IF field.schemaType \in {"number", "integer"} THEN
        IF isEmptyValue(value) \/ IsNaN(ToNumber(value)) THEN Undef
        ELSE IF field.schemaType = "integer" THEN Trunc(ToNumber(value))
        ELSE ToNumber(value)
    ELSE IF field.schemaType = "boolean" THEN
        IF value.t = "boolean" THEN value ELSE Undef
    ELSE IF value.t \in {"null", "undefined"} THEN Undef
    ELSE Str(JsString(value))

normalizePrimitiveValue(field, value) ==
    IF field.schemaType \in {"number", "integer"} THEN
        IF isEmptyValue(value) THEN Undef
        ELSE LET parsed == ToNumber(value)
             IN  IF IsNaN(parsed) THEN Undef
                 ELSE IF field.schemaType = "integer" THEN Trunc(parsed)
                 ELSE parsed
    ELSE IF field.schemaType = "boolean" THEN
        IF value.t = "boolean" THEN value
        ELSE IF value.t = "string" THEN
            LET lowered == StrLower(StrTrim(value.s))
            IN  IF lowered = "true" THEN Bool(TRUE)
                ELSE IF lowered = "false" THEN Bool(FALSE)
                ELSE Undef
        ELSE Undef
    ELSE IF value.t \in {"null", "undefined"} THEN Undef
    ELSE LET stringValue == JsString(value)
         IN  IF ~field.nullable /\ StrTrim(stringValue) = "" THEN Undef
             ELSE Str(stringValue)

normalizeSimpleQueryValue(field, value) ==
    IF field.schemaType \in {"number", "integer"} THEN
        LET parsed == ToNumber(value)
        IN  IF IsNaN(parsed) THEN Undef
            ELSE IF field.schemaType = "integer" THEN Trunc(parsed)
            ELSE parsed
    ELSE IF field.schemaType = "boolean" THEN Bool(ToBoolean(value))
    ELSE Str(JsString(value))

\* the test of field.required left out
shouldIncludeSimpleQueryValueRequiredIgnored(field, value) ==
    IF isEmptyValue(value) THEN FALSE
    ELSE IF field.schemaType \in {"number", "integer"} /\ ToNumber(value) = NumH(0)
        THEN field.default # Undef
    ELSE IF field.schemaType = "boolean" /\ value = Bool(FALSE)
        THEN field.default # Undef
    ELSE TRUE

shouldIncludeSimpleQueryValue(field, value) ==
    IF field.required THEN TRUE
    ELSE IF isEmptyValue(value) THEN FALSE
    ELSE IF field.schemaType \in {"number", "integer"} /\ ToNumber(value) = NumH(0)
        THEN field.default # Undef
    ELSE IF field.schemaType = "boolean" /\ value = Bool(FALSE)
        THEN field.default # Undef
    ELSE TRUE

(***************************************************************************)
(* Pagination helpers.                                                     *)
(***************************************************************************)
PageCeiling == 1000
DefaultPageSize == 50

KData == <<"d", "a", "t", "a">>
KCurrentPage == <<"c", "u", "r", "r", "e", "n", "t", "_", "p", "a", "g", "e">>
KLastPage == <<"l", "a", "s", "t", "_", "p", "a", "g", "e">>
KNextPageUrl == <<"n", "e", "x", "t", "_", "p", "a", "g", "e", "_", "u", "r", "l">>
KLinks == <<"l", "i", "n", "k", "s">>
KNext == <<"n", "e", "x", "t">>
KId == <<"i", "d">>
KPos == <<"n">>

toDataObjectArray(values) ==
    [i \in DOMAIN values |->
        IF isObject(values[i]) THEN values[i] ELSE Obj([k \in {TokValue} |-> values[i]])]

extractPaginatedItems(response) ==
    IF IsArray(response) THEN toDataObjectArray(response.a)
    ELSE IF ~isObject(response) THEN <<>>
    ELSE IF IsArray(Get(response, KData)) THEN toDataObjectArray(Get(response, KData).a)
    ELSE IF IsArray(Get(response, TokItems))
        THEN toDataObjectArray(Get(response, TokItems).a)
    ELSE <<>>

\* what the metadata of the response say: "more", "last", or "none" when the
\* response has no metadata the continuation test understands
PaginationMetadata(response) ==
    LET currentPage == ToNumber(Get(response, KCurrentPage))
        lastPage == ToNumber(Get(response, KLastPage))
        metaPage == ToNumber(Get(response, TokPage))
        metaLastPage == ToNumber(Get(response, KLastPage))
        links == Get(response, KLinks)
    IN  IF ~isObject(response) THEN "none"
        ELSE IF ~IsNaN(currentPage) /\ ~IsNaN(lastPage) /\ Positive(lastPage)
        THEN IF LessThan(currentPage, lastPage) THEN "more" ELSE "last"
        ELSE IF ~IsNaN(metaPage) /\ ~IsNaN(metaLastPage) /\ Positive(metaLastPage)
        THEN IF LessThan(metaPage, metaLastPage) THEN "more" ELSE "last"
        ELSE IF Get(response, KNextPageUrl) # Undef
        THEN IF ToBoolean(Get(response, KNextPageUrl)) THEN "more" ELSE "last"
        ELSE IF isObject(links) /\ Get(links, KNext) # Undef
        THEN IF ToBoolean(Get(links, KNext)) THEN "more" ELSE "last"
        ELSE "none"

\* page <= 1000 in the place of page < 1000
hasMorePaginatedItemsCeilingOff(response, pg, pageSize, itemsCount) ==
    IF PaginationMetadata(response) # "none" THEN PaginationMetadata(response) = "more"
    ELSE itemsCount >= pageSize /\ pg <= PageCeiling

\* currentPage <= lastPage in the place of currentPage < lastPage
hasMorePaginatedItemsLessOrEqual(response, pg, pageSize, itemsCount) ==
    IF isObject(response)
          /\ ~IsNaN(ToNumber(Get(response, KCurrentPage)))
          /\ ~IsNaN(ToNumber(Get(response, KLastPage)))
          /\ Positive(ToNumber(Get(response, KLastPage)))
    THEN ~LessThan(ToNumber(Get(response, KLastPage)),
                   ToNumber(Get(response, KCurrentPage)))
    ELSE IF PaginationMetadata(response) # "none"
    THEN PaginationMetadata(response) = "more"
    ELSE itemsCount >= pageSize /\ pg < PageCeiling

\* the test itemsCount >= pageSize left out
hasMorePaginatedItemsShortIgnored(response, pg, pageSize, itemsCount) ==
    IF PaginationMetadata(response) # "none" THEN PaginationMetadata(response) = "more"
    ELSE pg < PageCeiling

\* next_page_url looked at before the page numbers
hasMorePaginatedItemsUrlFirst(response, pg, pageSize, itemsCount) ==
    IF isObject(response) /\ Get(response, KNextPageUrl) # Undef
    THEN ToBoolean(Get(response, KNextPageUrl))
    ELSE IF PaginationMetadata(response) # "none"
    THEN PaginationMetadata(response) = "more"
    ELSE itemsCount >= pageSize /\ pg < PageCeiling

hasMorePaginatedItems(response, pg, pageSize, itemsCount) ==
    IF PaginationMetadata(response) # "none" THEN PaginationMetadata(response) = "more"
    ELSE itemsCount >= pageSize /\ pg < PageCeiling

\* Math.trunc of the first positive number among maximum, default, example
resolvePageSize(limitField) ==
    LET candidates == <<limitField.maximum, limitField.default, limitField.example>>
        good == {i \in 1..3 : Positive(ToNumber(candidates[i]))}
    IN  IF good = {} THEN DefaultPageSize
        ELSE AsInt(Trunc(ToNumber(candidates[CHOOSE i \in good : \A j \in good : i <= j])))

(***************************************************************************)
(* Errors.  A throwing function returns [err, val]: err is NoError and val *)
(* the result, or err is the error thrown.                                 *)
(***************************************************************************)
NoError == [type |-> "none"]
NodeOperationError(text, arg, idx) ==
    [type |-> "NodeOperationError", text |-> text, arg |-> arg, itemIndex |-> idx]
ApplicationError(text, arg) == [type |-> "ApplicationError", text |-> text, arg |-> arg]
\* what the transport (httpRequestWithAuthentication) throws: no NodeOperationError
TransportError == [type |-> "TransportError", text |-> "request failed", arg |-> <<>>]
Ok(val) == [err |-> NoError, val |-> val]
Throw(err) == [err |-> err, val |-> Undef]
\* the statements after a call that may throw: skipped when it has thrown
Bind(r, Rest(_)) == IF r.err # NoError THEN r ELSE Rest(r.val)

(***************************************************************************)
(* Body fields (IBodyField) and the node properties compiled from them.    *)
(***************************************************************************)
Primitive(apiKey, apiPath, required, schemaType) ==
    [kind |-> "primitive", apiKey |-> apiKey, apiPath |-> apiPath, required |-> required,
     nullable |-> FALSE, schemaType |-> schemaType, format |-> "", enumValues |-> <<>>]
ObjectField(apiKey, apiPath, required, children) ==
    [kind |-> "object", apiKey |-> apiKey, apiPath |-> apiPath, required |-> required,
     nullable |-> FALSE, children |-> children]
ArrayField(apiKey, apiPath, required, itemField) ==
    [kind |-> "array", apiKey |-> apiKey, apiPath |-> apiPath, required |-> required,
     nullable |-> FALSE, itemField |-> itemField]

KUuid == <<"u", "u", "i", "d">>

RECURSIVE Contains(_, _)
\* haystack.includes(needle)
Contains(haystack, needle) ==
    IF Len(haystack) < Len(needle) THEN FALSE
    ELSE IF SubSeq(haystack, 1, Len(needle)) = needle THEN TRUE
    ELSE Contains(Tail(haystack), needle)

isCustomFieldUuidBodyField(field) ==
    field.apiKey = KUuid /\ Contains(field.apiPath, TokCustomFields)

\* A node property: its name, its type and the properties nested in it
\* (options of a collection, values of the 'items' group of a fixedCollection).
createPrimitiveNodeProperty(field, name, required) ==
    [name |-> name,
     type |-> IF isCustomFieldUuidBodyField(field) THEN "options"
              ELSE IF Len(field.enumValues) > 0 THEN "options"
              ELSE IF field.schemaType \in {"number", "integer"} THEN "number"
              ELSE IF field.schemaType = "boolean" THEN "boolean"
              ELSE IF field.format = "date-time" THEN "dateTime"
              ELSE "string",
     required |-> required,
     options |-> <<>>]

RECURSIVE createBodyFieldNodeProperty(_, _, _)
createBodyFieldNodeProperty(operation, field, required) ==
    LET fieldName == bodyFieldParamName(operation, field)
    IN  IF field.kind = "primitive"
        THEN createPrimitiveNodeProperty(field, fieldName, required)
        ELSE IF field.kind = "object"
        THEN [name |-> fieldName, type |-> "collection", required |-> required,
              options |-> [i \in DOMAIN field.children |->
                  createBodyFieldNodeProperty(operation, field.children[i],
                                              field.children[i].required)]]
        ELSE LET itemField == field.itemField
                 itemValues ==
                    IF itemField.kind = "primitive"
                    THEN <<createPrimitiveNodeProperty(itemField,
                              bodyFieldParamName(operation, itemField), TRUE)>>
                    ELSE IF itemField.kind = "object"
                    THEN [i \in DOMAIN itemField.children |->
                              createBodyFieldNodeProperty(operation, itemField.children[i],
                                                          itemField.children[i].required)]
                    ELSE <<createBodyFieldNodeProperty(operation, itemField.itemField,
                                                       itemField.itemField.required)>>
             IN  [name |-> fieldName, type |-> "fixedCollection", required |-> required,
                  options |-> itemValues]

(***************************************************************************)
(* Payload assembler.                                                      *)
(***************************************************************************)
RECURSIVE parseBodyFieldValue(_, _, _, _)
RECURSIVE ParseChildren(_, _, _, _, _, _)
RECURSIVE ParseItems(_, _, _, _, _, _)

\* the loop over field.children, from child i on, with the output so far
ParseChildren(field, source, i, output, itemIdx, operation) ==
    IF i > Len(field.children) THEN
        IF Keys(output) = {} THEN
            IF field.required
            THEN Throw(NodeOperationError("Missing required object", field.apiPath, itemIdx))
            ELSE Ok(Undef)
        ELSE Ok(output)
    ELSE LET child == field.children[i]
             childName == bodyFieldParamName(operation, child)
         IN  IF ~Has(source, childName) THEN
                 IF child.required
                 THEN Throw(NodeOperationError("Missing required field",
                                               child.apiPath, itemIdx))
                 ELSE ParseChildren(field, source, i + 1, output, itemIdx, operation)
             ELSE Bind(parseBodyFieldValue(child, Get(source, childName),
                                           itemIdx, operation),
                       LAMBDA parsedChild :
                          ParseChildren(field, source, i + 1,
                              IF parsedChild # Undef
                              THEN Put(output, child.apiKey, parsedChild)
                              ELSE output,
                              itemIdx, operation))

RECURSIVE ParseItemsKeepingEmpty(_, _, _, _, _, _)
\* the loop over items of an assembler that returns the array of an optional
\* field also when no item is left
ParseItemsKeepingEmpty(field, items, i, parsedItems, itemIdx, operation) ==
    IF i > Len(items) THEN
        IF Len(parsedItems) = 0 /\ field.required
        THEN Throw(NodeOperationError("Missing required array", field.apiPath, itemIdx))
        ELSE Ok(Arr(parsedItems))
    ELSE LET itemEntry == items[i]
         IN  IF field.itemField.kind = "primitive" /\ ~isObject(itemEntry)
             THEN ParseItemsKeepingEmpty(field, items, i + 1, parsedItems, itemIdx, operation)
             ELSE Bind(parseBodyFieldValue(field.itemField,
                          IF field.itemField.kind = "primitive"
                          THEN Get(itemEntry, bodyFieldParamName(operation, field.itemField))
                          ELSE itemEntry,
                          itemIdx, operation),
                       LAMBDA parsedItem :
                          ParseItemsKeepingEmpty(field, items, i + 1,
                              IF parsedItem # Undef
                              THEN Append(parsedItems, parsedItem)
                              ELSE parsedItems,
                              itemIdx, operation))

\* the loop over items, from entry i on, with the parsed items so far
ParseItems(field, items, i, parsedItems, itemIdx, operation) ==
    IF i > Len(items) THEN
        IF Len(parsedItems) = 0 THEN
            IF field.required
            THEN Throw(NodeOperationError("Missing required array", field.apiPath, itemIdx))
            ELSE Ok(Undef)
        ELSE Ok(Arr(parsedItems))
    ELSE LET itemEntry == items[i]
         IN  IF field.itemField.kind = "primitive" /\ ~isObject(itemEntry)
             THEN ParseItems(field, items, i + 1, parsedItems, itemIdx, operation)
             ELSE Bind(parseBodyFieldValue(field.itemField,
                          IF field.itemField.kind = "primitive"
                          THEN Get(itemEntry, bodyFieldParamName(operation, field.itemField))
                          ELSE itemEntry,
                          itemIdx, operation),
                       LAMBDA parsedItem :
                          ParseItems(field, items, i + 1,
                              IF parsedItem # Undef
                              THEN Append(parsedItems, parsedItem)
                              ELSE parsedItems,
                              itemIdx, operation))

parseBodyFieldValue(field, rawValue, itemIdx, operation) ==
    IF field.kind = "primitive" THEN
        LET normalized == normalizePrimitiveValue(field, rawValue)
        IN  IF field.required /\ normalized = Undef
            THEN Throw(NodeOperationError("Missing required field", field.apiPath, itemIdx))
            ELSE Ok(normalized)
    ELSE IF field.kind = "object" THEN
        ParseChildren(field, IF isObject(rawValue) THEN rawValue ELSE EmptyObj,
                      1, EmptyObj, itemIdx, operation)
    ELSE LET source == IF isObject(rawValue) THEN rawValue ELSE EmptyObj
             rawItems == Get(source, TokItems)
             items == IF IsArray(rawItems) THEN rawItems.a ELSE <<>>
         IN  ParseItems(field, items, 1, <<>>, itemIdx, operation)

(***************************************************************************)
(* Request building: the stages of execute before the first request.       *)
(* An input item is [resource, operation, p, binary]: p maps the names of  *)
(* the node parameters to their values, binary holds the names of the      *)
(* item's binary properties.                                               *)
(***************************************************************************)
getNodeParameter(p, name, fallback) == IF name \in DOMAIN p THEN p[name] ELSE fallback

RECURSIVE FindOperation(_, _, _)
FindOperation(operations, operation, i) ==
    IF i > Len(operations) THEN 0
    ELSE IF operations[i].operationValue = operation THEN i
    ELSE FindOperation(operations, operation, i + 1)

RECURSIVE getOperationMetadataFrom(_, _, _, _)
getOperationMetadataFrom(resources, resourceKey, operation, r) ==
    IF r > Len(resources)
    THEN Throw(ApplicationError("Unknown operation", <<resourceKey, operation>>))
    ELSE IF resources[r].resourceValue # resourceKey
    THEN getOperationMetadataFrom(resources, resourceKey, operation, r + 1)
    ELSE LET i == FindOperation(resources[r].operations, operation, 1)
         IN  IF i = 0
             THEN getOperationMetadataFrom(resources, resourceKey, operation, r + 1)
             ELSE Ok([meta |-> resources[r].operations[i],
                      resourceValue |-> resources[r].resourceValue])

getOperationMetadata(resources, resourceKey, operation) ==
    getOperationMetadataFrom(resources, resourceKey, operation, 1)

\* endpointPath.replace('{name}', encodeURIComponent(value)): the first occurrence
RECURSIVE ReplaceFirst(_, _, _)
ReplaceFirst(path, name, value) ==
    IF path = <<>> THEN <<>>
    ELSE IF Head(path) = [ph |-> name]
    THEN <<[enc |-> value]>> \o Tail(path)
    ELSE <<Head(path)>> \o ReplaceFirst(Tail(path), name, value)

RECURSIVE PathLoop(_, _, _, _, _)
PathLoop(operation, p, i, endpointPath, itemIdx) ==
    IF i > Len(operation.pathUi) THEN Ok(endpointPath)
    ELSE LET pathField == operation.pathUi[i]
             value == getNodeParameter(p, pathParamName(operation, pathField), Undef)
         IN  IF isEmptyValue(value) THEN
                 IF pathField.required
                 THEN Throw(NodeOperationError("Missing path parameter",
                                               pathField.name, itemIdx))
                 ELSE PathLoop(operation, p, i + 1, endpointPath, itemIdx)
             ELSE PathLoop(operation, p, i + 1,
                           ReplaceFirst(endpointPath, pathField.name, value), itemIdx)

PathStage(operation, p, itemIdx) == PathLoop(operation, p, 1, operation.path, itemIdx)

RECURSIVE FindField(_, _, _)
\* simple.find((field) => field.name === name): its index, 0 when there is none
FindField(simple, name, i) ==
    IF i > Len(simple) THEN 0
    ELSE IF simple[i].name = name THEN i
    ELSE FindField(simple, name, i + 1)

HasPageField(operation) == FindField(operation.queryUi.simple, TokPage, 1) # 0
HasLimitField(operation) == FindField(operation.queryUi.simple, TokLimit, 1) # 0
PageFieldOf(operation) ==
    operation.queryUi.simple[FindField(operation.queryUi.simple, TokPage, 1)]
LimitFieldOf(operation) ==
    operation.queryUi.simple[FindField(operation.queryUi.simple, TokLimit, 1)]

RECURSIVE SimpleLoop(_, _, _, _)
SimpleLoop(operation, p, i, query) ==
    IF i > Len(operation.queryUi.simple) THEN query
    ELSE LET simpleField == operation.queryUi.simple[i]
             value == getNodeParameter(p, querySimpleParamName(operation, simpleField),
                                       Undef)
             normalized == normalizeSimpleQueryValue(simpleField, value)
         IN  IF simpleField.name \in {TokPage, TokLimit}
                   \/ ~shouldIncludeSimpleQueryValue(simpleField, value)
                   \/ normalized = Undef
             THEN SimpleLoop(operation, p, i + 1, query)
             ELSE SimpleLoop(operation, p, i + 1, Put(query, simpleField.name, normalized))

\* if (Number.isNaN(parsed) || parsed < 1) throw ...; query[name] = parsed
PositiveOr(parsed, name, query, itemIdx) ==
    IF IsNaN(parsed) \/ LessThan(parsed, Whole(1))
    THEN Throw(NodeOperationError("Invalid value. Expected a number greater than 0.",
                                  name, itemIdx))
    ELSE Ok(Put(query, name, parsed))

\* the block that reads and validates the limit parameter
LimitPart(operation, p, query, itemIdx) ==
    LET limitField == LimitFieldOf(operation)
        limitValue == getNodeParameter(p, querySimpleParamName(operation, limitField),
                                       Whole(resolvePageSize(limitField)))
        normalizedLimit == normalizeSimpleQueryValue(limitField, limitValue)
        parsedLimit == Trunc(ToNumber(normalizedLimit))
    IN  IF ~shouldIncludeSimpleQueryValue(limitField, limitValue) \/ normalizedLimit = Undef
        THEN Ok(query)
        ELSE PositiveOr(parsedLimit, limitField.name, query, itemIdx)

\* the block that reads and validates the page option
PagePart(operation, p, query, itemIdx) ==
    LET pageField == PageFieldOf(operation)
        optionsSource == getNodeParameter(p, queryOptionsCollectionParamName(operation),
                                          EmptyObj)
        pageValue == Get(optionsSource, queryPageOptionParamName(operation))
        parsedPage == Trunc(ToNumber(pageValue))
    IN  IF isEmptyValue(pageValue) THEN Ok(query)
        ELSE PositiveOr(parsedPage, pageField.name, query, itemIdx)

GetAllOf(operation, p) ==
    HasPageField(operation) /\ HasLimitField(operation)
        /\ ToBoolean(getNodeParameter(p, queryGetAllParamName(operation), Bool(TRUE)))

PagingPart(operation, p, query, itemIdx) ==
    IF HasPageField(operation) /\ HasLimitField(operation) /\ GetAllOf(operation, p)
    THEN Ok(query)
    ELSE Bind(IF HasLimitField(operation)
              THEN LimitPart(operation, p, query, itemIdx) ELSE Ok(query),
              LAMBDA limited :
                 IF HasPageField(operation)
                 THEN PagePart(operation, p, limited, itemIdx) ELSE Ok(limited))

RECURSIVE JoinComma(_)
\* includeValues.join(',')
JoinComma(values) ==
    IF Len(values) = 0 THEN ""
    ELSE IF Len(values) = 1 THEN JsString(values[1])
    ELSE JsString(values[1]) \o "," \o JoinComma(Tail(values))

IncludePart(operation, p, query) ==
    LET includeValues == getNodeParameter(p, queryIncludeParamName(operation), Arr(<<>>))
    IN  IF Len(operation.queryUi.include) > 0 /\ Len(includeValues.a) > 0
        THEN Put(query, TokInclude, Str(JoinComma(includeValues.a)))
        ELSE query

SortPart(operation, p, query) ==
    LET sortValue == getNodeParameter(p, querySortParamName(operation), Str(""))
    IN  IF Len(operation.queryUi.sort) > 0 /\ ~isEmptyValue(sortValue)
        THEN Put(query, TokSort, sortValue)
        ELSE query

\* new Date(value) and the UTC fields of toKeycrmUtcDateTime, for the date
\* strings of the model; "" stands for an invalid date
UtcDateTimeText(value) ==
    CASE value = "2024-01-01" -> "2024-01-01 00:00:00"
      [] value = "2024-01-31" -> "2024-01-31 00:00:00"
      [] value = "2024-01-01T10:00:00+02:00" -> "2024-01-01 08:00:00"
      [] OTHER -> ""

toKeycrmUtcDateTime(value) ==
    IF UtcDateTimeText(value) = ""
    THEN Throw(ApplicationError("Invalid date value", value))
    ELSE Ok(UtcDateTimeText(value))

\* the value of a date range filter: '<from>, <to>'
DateRange(fromValue, toValue) ==
    Bind(toKeycrmUtcDateTime(JsString(fromValue)),
         LAMBDA fromText :
            Bind(toKeycrmUtcDateTime(JsString(toValue)),
                 LAMBDA toText : Ok(Str(fromText \o ", " \o toText))))

\* a date range filter that is skipped when one of its ends is missing
FilterFieldOneSided(operation, filterSource, filterField, filterPayload, itemIdx) ==
    LET fromValue == Get(filterSource, queryFilterFromParamName(operation, filterField))
        toValue == Get(filterSource, queryFilterToParamName(operation, filterField))
    IN  IF filterField.fieldType = "betweenDateTime"
              /\ ~isEmptyValue(fromValue) /\ ~isEmptyValue(toValue)
        THEN Bind(DateRange(fromValue, toValue),
                  LAMBDA range : Ok(Put(filterPayload, filterField.name, range)))
        ELSE Ok(filterPayload)

\* what one filter field adds to the filter payload
FilterField(operation, filterSource, filterField, filterPayload, itemIdx) ==
    LET fromValue == Get(filterSource, queryFilterFromParamName(operation, filterField))
        toValue == Get(filterSource, queryFilterToParamName(operation, filterField))
        rawValue == Get(filterSource, queryFilterFieldParamName(operation, filterField))
    IN  IF filterField.fieldType = "betweenDateTime" THEN
            IF isEmptyValue(fromValue) # isEmptyValue(toValue)
            THEN Throw(NodeOperationError("Filter expects both from and to",
                                          filterField.name, itemIdx))
            ELSE IF isEmptyValue(fromValue) THEN Ok(filterPayload)
            ELSE Bind(DateRange(fromValue, toValue),
                      LAMBDA range : Ok(Put(filterPayload, filterField.name, range)))
        ELSE IF isEmptyValue(rawValue) THEN Ok(filterPayload)
        ELSE IF filterField.fieldType \in {"number", "integer"} THEN
            IF IsNaN(ToNumber(rawValue)) THEN Ok(filterPayload)
            ELSE Ok(Put(filterPayload, filterField.name,
                        IF filterField.fieldType = "integer"
                        THEN Trunc(ToNumber(rawValue)) ELSE ToNumber(rawValue)))
        ELSE IF filterField.fieldType = "boolean"
        THEN Ok(Put(filterPayload, filterField.name, Bool(ToBoolean(rawValue))))
        ELSE Ok(Put(filterPayload, filterField.name, Str(JsString(rawValue))))

RECURSIVE FilterLoop(_, _, _, _, _)
FilterLoop(operation, filterSource, i, filterPayload, itemIdx) ==
    IF i > Len(operation.queryUi.filters) THEN Ok(filterPayload)
    ELSE Bind(FilterField(operation, filterSource, operation.queryUi.filters[i],
                          filterPayload, itemIdx),
              LAMBDA payload : FilterLoop(operation, filterSource, i + 1, payload, itemIdx))

RECURSIVE CustomFieldsLoop(_, _, _)
CustomFieldsLoop(items, i, customFieldsPayload) ==
    IF i > Len(items) THEN customFieldsPayload
    ELSE IF ~isObject(items[i])
              \/ isEmptyValue(Get(items[i], KUuid))
              \/ isEmptyValue(Get(items[i], TokValue))
    THEN CustomFieldsLoop(items, i + 1, customFieldsPayload)
    ELSE CustomFieldsLoop(items, i + 1,
            Put(customFieldsPayload, <<JsString(Get(items[i], KUuid))>>,
                Str(JsString(Get(items[i], TokValue)))))

\* the custom-fields filter and the attachment of the filter object
AttachFilter(filterSource, customFieldsFilterRaw, fields, query) ==
    LET customFieldsPayload ==
            IF isObject(customFieldsFilterRaw)
                  /\ IsArray(Get(customFieldsFilterRaw, TokItems))
            THEN CustomFieldsLoop(Get(customFieldsFilterRaw, TokItems).a, 1, EmptyObj)
            ELSE EmptyObj
        filterPayload ==
            IF Keys(customFieldsPayload) # {}
            THEN Put(fields, TokCustomFields, customFieldsPayload)
            ELSE fields
    IN  IF Keys(filterPayload) # {} THEN Put(query, TokFilter, filterPayload) ELSE query

FilterSourceOf(operation, p) ==
    getNodeParameter(p, queryFilterCollectionParamName(operation), EmptyObj)

FilterPart(operation, p, query, itemIdx) ==
    IF Len(operation.queryUi.filters) = 0 THEN Ok(query)
    ELSE Bind(FilterLoop(operation, FilterSourceOf(operation, p), 1, EmptyObj, itemIdx),
              LAMBDA fields :
                 Ok(AttachFilter(FilterSourceOf(operation, p),
                                 Get(FilterSourceOf(operation, p),
                                     queryCustomFieldsFilterParamName(operation)),
                                 fields, query)))

QueryStage(operation, p, itemIdx) ==
    Bind(PagingPart(operation, p, SimpleLoop(operation, p, 1, EmptyObj), itemIdx),
         LAMBDA paged :
            FilterPart(operation, p,
                       SortPart(operation, p, IncludePart(operation, p, paged)), itemIdx))

NoBodyUi ==
    [present |-> FALSE, contentType |-> "", binaryProperty |-> <<>>,
     requiredFields |-> <<>>, optionalFields |-> <<>>]
JsonBodyUi(requiredFields, optionalFields) ==
    [present |-> TRUE, contentType |-> "application/json", binaryProperty |-> <<>>,
     requiredFields |-> requiredFields, optionalFields |-> optionalFields]
MultipartBodyUi(binaryProperty) ==
    [present |-> TRUE, contentType |-> "multipart/form-data",
     binaryProperty |-> binaryProperty, requiredFields |-> <<>>, optionalFields |-> <<>>]

RECURSIVE RequiredLoop(_, _, _, _, _)
RequiredLoop(operation, p, i, bodyPayload, itemIdx) ==
    IF i > Len(operation.bodyUi.requiredFields) THEN Ok(bodyPayload)
    ELSE LET requiredField == operation.bodyUi.requiredFields[i]
             rawRequiredValue ==
                 getNodeParameter(p, bodyFieldParamName(operation, requiredField), Undef)
         IN  Bind(parseBodyFieldValue(requiredField, rawRequiredValue, itemIdx, operation),
                  LAMBDA parsed :
                     IF parsed = Undef
                     THEN Throw(NodeOperationError("Missing required body field",
                                                   requiredField.apiPath, itemIdx))
                     ELSE RequiredLoop(operation, p, i + 1,
                              Put(bodyPayload, requiredField.apiKey, parsed), itemIdx))

RECURSIVE OptionalLoop(_, _, _, _, _)
OptionalLoop(operation, optionalSource, i, bodyPayload, itemIdx) ==
    IF i > Len(operation.bodyUi.optionalFields) THEN Ok(bodyPayload)
    ELSE LET optionalField == operation.bodyUi.optionalFields[i]
             optionalKey == bodyFieldParamName(operation, optionalField)
         IN  Bind(IF Has(optionalSource, optionalKey)
                  THEN parseBodyFieldValue(optionalField, Get(optionalSource, optionalKey),
                                           itemIdx, operation)
                  ELSE Ok(Undef),
                  LAMBDA parsed :
                     OptionalLoop(operation, optionalSource, i + 1,
                         IF parsed # Undef
                         THEN Put(bodyPayload, optionalField.apiKey, parsed)
                         ELSE bodyPayload,
                         itemIdx))

\* the JSON body: Undef when no key was assembled (requestOptions.body not set)
JsonBody(operation, p, itemIdx) ==
    Bind(RequiredLoop(operation, p, 1, EmptyObj, itemIdx),
         LAMBDA required :
            Bind(IF Len(operation.bodyUi.optionalFields) > 0
                 THEN OptionalLoop(operation,
                          getNodeParameter(p, bodyOptionalCollectionParamName(operation),
                                           EmptyObj),
                          1, required, itemIdx)
                 ELSE Ok(required),
                 LAMBDA bodyPayload :
                    IF Keys(bodyPayload) # {} THEN Ok(bodyPayload) ELSE Ok(Undef)))

\* this.helpers.assertBinaryData and the form data built from it
BinaryBody(operation, item, binaryPropertyName, itemIdx) ==
    IF binaryPropertyName \in item.binary
    THEN Ok([t |-> "formdata", field |-> operation.bodyUi.binaryProperty,
             file |-> binaryPropertyName])
    ELSE Throw(NodeOperationError("No binary data", <<>>, itemIdx))

\* the body of the request: Undef when requestOptions.body is not set
BodyStage(operation, item, itemIdx) ==
    IF ~operation.bodyUi.present THEN Ok(Undef)
    ELSE IF operation.bodyUi.contentType = "multipart/form-data"
              /\ operation.bodyUi.binaryProperty # <<>>
    THEN BinaryBody(operation, item,
                    getNodeParameter(item.p, bodyBinaryPropertyParamName(operation), Undef),
                    itemIdx)
    ELSE JsonBody(operation, item.p, itemIdx)

\* requestOptions.headers is set only on the multipart path
RequestOptions(operation, endpointPath, query, body) ==
    [url |-> endpointPath, method |-> operation.method, qs |-> query, body |-> body,
     acceptOnly |-> body.t = "formdata"]

\* a request built although a stage has thrown: what was assembled until then
Salvage(r, fallback) == IF r.err = NoError THEN r.val ELSE fallback

BuildRequestIgnoringErrors(operation, item, itemIdx) ==
    Ok(RequestOptions(operation,
                      Salvage(PathStage(operation, item.p, itemIdx), operation.path),
                      Salvage(QueryStage(operation, item.p, itemIdx), EmptyObj),
                      Salvage(BodyStage(operation, item, itemIdx), Undef)))

\* the statements of execute between the metadata lookup and the first request
BuildRequest(operation, item, itemIdx) ==
    Bind(PathStage(operation, item.p, itemIdx),
         LAMBDA endpointPath :
            Bind(QueryStage(operation, item.p, itemIdx),
                 LAMBDA query :
                    Bind(BodyStage(operation, item, itemIdx),
                         LAMBDA body :
                            Ok(RequestOptions(operation, endpointPath, query, body)))))

(***************************************************************************)
(* The metadata document of the model (openapi-data.json is not part of    *)
(* the sources): two resources, four operations that between them have a   *)
(* path parameter, page and limit, a date range filter, a nested JSON body *)
(* and a multipart body.                                                   *)
(***************************************************************************)
KStatus == <<"s", "t", "a", "t", "u", "s">>
KCreated == <<"c", "r", "e", "a", "t", "e", "d">>
KName == <<"n", "a", "m", "e">>
KAge == <<"a", "g", "e">>
KTags == <<"t", "a", "g", "s">>
KFile == <<"f", "i", "l", "e">>
Dot == <<".">>

SimpleField(name, schemaType, maximum) ==
    [name |-> name, apiPath |-> name, required |-> FALSE, schemaType |-> schemaType,
     format |-> "", enumValues |-> <<>>, maximum |-> maximum, default |-> Undef,
     example |-> Undef]

NoQueryUi == [simple |-> <<>>, include |-> <<>>, sort |-> <<>>, filters |-> <<>>]

OpList ==
    [operationValue |-> "list", operationId |-> <<"l", "i", "s", "t", "O", "r", "d">>,
     method |-> "GET", path |-> <<[lit |-> "/order"]>>, pathUi |-> <<>>,
     queryUi |-> [simple |-> <<SimpleField(TokPage, "integer", Undef),
                               SimpleField(TokLimit, "integer", Whole(2)),
                               SimpleField(KStatus, "string", Undef)>>,
                  include |-> <<"buyer", "products">>,
                  sort |-> <<"id">>,
                  filters |-> <<[name |-> KCreated, fieldType |-> "betweenDateTime"],
                                [name |-> KStatus, fieldType |-> "integer"]>>],
     bodyUi |-> NoBodyUi]

OpGet ==
    [operationValue |-> "get", operationId |-> <<"g", "e", "t", "O", "r", "d">>,
     method |-> "GET", path |-> <<[lit |-> "/order/"], [ph |-> KId]>>,
     pathUi |-> <<[name |-> KId, apiPath |-> KId, required |-> TRUE]>>,
     queryUi |-> NoQueryUi, bodyUi |-> NoBodyUi]

DataField ==
    ObjectField(KData, KData, TRUE,
        <<Primitive(KName, KData \o Dot \o KName, TRUE, "string"),
          Primitive(KAge, KData \o Dot \o KAge, FALSE, "integer")>>)

TagsField == ArrayField(KTags, KTags, FALSE, Primitive(KTags, KTags \o Dot, TRUE, "string"))

OpCreate ==
    [operationValue |-> "create", operationId |-> <<"n", "e", "w", "O", "r", "d">>,
     method |-> "POST", path |-> <<[lit |-> "/order"]>>, pathUi |-> <<>>,
     queryUi |-> NoQueryUi,
     bodyUi |-> JsonBodyUi(<<DataField>>, <<TagsField>>)]

OpUpload ==
    [operationValue |-> "upload", operationId |-> <<"u", "p", "l", "o", "a", "d">>,
     method |-> "POST", path |-> <<[lit |-> "/storage/upload"]>>, pathUi |-> <<>>,
     queryUi |-> NoQueryUi, bodyUi |-> MultipartBodyUi(KFile)]

\* list operations that have only one of the two paging fields
OpListLimitOnly ==
    [operationValue |-> "listLimit",
     operationId |-> <<"l", "i", "s", "t", "P", "r", "o", "d">>,
     method |-> "GET", path |-> <<[lit |-> "/products"]>>, pathUi |-> <<>>,
     queryUi |-> [NoQueryUi EXCEPT !.simple = <<SimpleField(TokLimit, "integer", Whole(2))>>],
     bodyUi |-> NoBodyUi]

OpListPageOnly ==
    [operationValue |-> "listPage",
     operationId |-> <<"l", "i", "s", "t", "C", "a", "t">>,
     method |-> "GET", path |-> <<[lit |-> "/products/categories"]>>, pathUi |-> <<>>,
     queryUi |-> [NoQueryUi EXCEPT !.simple = <<SimpleField(TokPage, "integer", Undef)>>],
     bodyUi |-> NoBodyUi]

\* operations whose path has an optional field, and the same field twice
OpGetOptional ==
    [operationValue |-> "getOptional", operationId |-> <<"g", "e", "t", "B", "u", "y">>,
     method |-> "GET",
     path |-> <<[lit |-> "/buyer/"], [ph |-> KId], [lit |-> "/"], [ph |-> KStatus]>>,
     pathUi |-> <<[name |-> KId, apiPath |-> KId, required |-> TRUE],
                  [name |-> KStatus, apiPath |-> KStatus, required |-> FALSE]>>,
     queryUi |-> NoQueryUi, bodyUi |-> NoBodyUi]

OpGetTwice ==
    [operationValue |-> "getTwice", operationId |-> <<"g", "e", "t", "C", "o", "p", "y">>,
     method |-> "GET",
     path |-> <<[lit |-> "/buyer/"], [ph |-> KId], [lit |-> "/copy/"], [ph |-> KId]>>,
     pathUi |-> <<[name |-> KId, apiPath |-> KId, required |-> TRUE]>>,
     queryUi |-> NoQueryUi, bodyUi |-> NoBodyUi]

METADATA ==
    [resources |-> <<[resourceValue |-> "order", operations |-> <<OpList, OpGet, OpCreate>>],
                     [resourceValue |-> "storage", operations |-> <<OpUpload>>],
                     [resourceValue |-> "product",
                      operations |-> <<OpListLimitOnly, OpListPageOnly>>],
                     [resourceValue |-> "buyer",
                      operations |-> <<OpGetOptional, OpGetTwice>>]>>]

(***************************************************************************)
(* The input items of the model: for every stage one item that passes it   *)
(* and one that fails it.                                                  *)
(***************************************************************************)
Item(resource, operation, p, binary) ==
    [resource |-> resource, operation |-> operation, p |-> p, binary |-> binary]

ItemUnknownOperation == Item("order", "nope", <<>>, {})
ItemGet == Item("order", "get", pathParamName(OpGet, OpGet.pathUi[1]) :> Str("7"), {})
ItemGetNoId == Item("order", "get", pathParamName(OpGet, OpGet.pathUi[1]) :> Str(" "), {})
ItemListAll ==
    Item("order", "list",
         querySimpleParamName(OpList, OpList.queryUi.simple[3]) :> Str("new"), {})
ItemListPage ==
    Item("order", "list",
         (queryGetAllParamName(OpList) :> Bool(FALSE))
         @@ (querySimpleParamName(OpList, OpList.queryUi.simple[2]) :> Whole(1))
         @@ (querySimpleParamName(OpList, OpList.queryUi.simple[3]) :> Str(""))
         @@ (queryFilterCollectionParamName(OpList) :>
                Obj((queryFilterFromParamName(OpList, OpList.queryUi.filters[1])
                        :> Str("2024-01-01"))
                    @@ (queryFilterToParamName(OpList, OpList.queryUi.filters[1])
                        :> Str("2024-01-31")))),
         {})
ItemListBadLimit ==
    Item("order", "list",
         (queryGetAllParamName(OpList) :> Bool(FALSE))
         @@ (querySimpleParamName(OpList, OpList.queryUi.simple[2]) :> Whole(-1)),
         {})
ItemListHalfRange ==
    Item("order", "list",
         queryFilterCollectionParamName(OpList) :>
             Obj(queryFilterFromParamName(OpList, OpList.queryUi.filters[1])
                    :> Str("2024-01-01")),
         {})
ItemListBadDate ==
    Item("order", "list",
         queryFilterCollectionParamName(OpList) :>
             Obj((queryFilterFromParamName(OpList, OpList.queryUi.filters[1])
                     :> Str("yesterday"))
                 @@ (queryFilterToParamName(OpList, OpList.queryUi.filters[1])
                     :> Str("2024-01-31"))),
         {})
ItemCreate ==
    Item("order", "create",
         bodyFieldParamName(OpCreate, DataField) :>
             Obj(bodyFieldParamName(OpCreate, DataField.children[1]) :> Str("Ada")),
         {})
ItemCreateNoName ==
    Item("order", "create",
         bodyFieldParamName(OpCreate, DataField) :>
             Obj((bodyFieldParamName(OpCreate, DataField.children[1]) :> Str(""))
                 @@ (bodyFieldParamName(OpCreate, DataField.children[2]) :> Whole(3))),
         {})
ItemUpload ==
    Item("storage", "upload", bodyBinaryPropertyParamName(OpUpload) :> Str("data"),
         {Str("data")})
ItemUploadNoBinary ==
    Item("storage", "upload", bodyBinaryPropertyParamName(OpUpload) :> Str("data"), {})

ItemInputs ==
    {ItemUnknownOperation, ItemGet, ItemGetNoId, ItemListAll, ItemListPage,
     ItemListBadLimit, ItemListHalfRange, ItemListBadDate, ItemCreate, ItemCreateNoName,
     ItemUpload, ItemUploadNoBinary}

LoopInputs == {ItemListAll}

(***************************************************************************)
(* The input items of the runs of one item, by the stage they exercise.    *)
(* A parameter the editor has not set is Absent: it has no entry in p.     *)
(***************************************************************************)
Absent == [t |-> "absent"]
Entry(name, value) == IF value = Absent THEN <<>> ELSE name :> value

\* the body of 'create': data.name and data.age as supplied
NameValues == {Absent, Null, Str(""), Str(" "), Str("Ada")}
AgeValues == {Absent, Str(""), Whole(3)}

CreateItem(name, age) ==
    Item("order", "create",
         bodyFieldParamName(OpCreate, DataField) :>
             Obj(Entry(bodyFieldParamName(OpCreate, DataField.children[1]), name)
                 @@ Entry(bodyFieldParamName(OpCreate, DataField.children[2]), age)),
         {})

CreateInputs ==
    {CreateItem(name, age) : name \in NameValues, age \in AgeValues}
    \cup {Item("order", "create", <<>>, {})}

\* 'list' with the fetch-all switch off: limit and page as supplied
PagingValues ==
    {Absent, Whole(1), Whole(2), Whole(0), Whole(-1), NumH(1), NumH(3), Str("abc"), Str("2")}

PagingItem(limit, pageValue) ==
    Item("order", "list",
         (queryGetAllParamName(OpList) :> Bool(FALSE))
         @@ Entry(querySimpleParamName(OpList, OpList.queryUi.simple[2]), limit)
         @@ (queryOptionsCollectionParamName(OpList) :>
                Obj(Entry(queryPageOptionParamName(OpList), pageValue))),
         {})

PagingInputs == {PagingItem(limit, pageValue) : limit \in PagingValues, pageValue \in PagingValues}

\* 'list' with the two ends of the date range filter 'created' as supplied
DateValues ==
    {Absent, Null, Str(""), Str(" "), Str("2024-01-01"), Str("2024-01-31"),
     Str("2024-01-01T10:00:00+02:00"), Str("yesterday")}

FilterItem(getAll, fromValue, toValue) ==
    Item("order", "list",
         (queryGetAllParamName(OpList) :> Bool(getAll))
         @@ (queryFilterCollectionParamName(OpList) :>
                Obj(Entry(queryFilterFromParamName(OpList, OpList.queryUi.filters[1]),
                          fromValue)
                    @@ Entry(queryFilterToParamName(OpList, OpList.queryUi.filters[1]),
                             toValue))),
         {})

FilterInputs ==
    {FilterItem(getAll, fromValue, toValue) :
        getAll \in BOOLEAN, fromValue \in DateValues, toValue \in DateValues}

\* 'list' with the fetch-all switch on, or not set, and a limit and a page
\* supplied all the same
FetchAllItem(getAll, limit, pageValue) ==
    Item("order", "list",
         Entry(queryGetAllParamName(OpList), getAll)
         @@ Entry(querySimpleParamName(OpList, OpList.queryUi.simple[2]), limit)
         @@ (querySimpleParamName(OpList, OpList.queryUi.simple[3]) :> Str("new"))
         @@ (queryOptionsCollectionParamName(OpList) :>
                Obj(Entry(queryPageOptionParamName(OpList), pageValue))),
         {})

FetchAllInputs ==
    {FetchAllItem(getAll, limit, pageValue) :
        getAll \in {Absent, Bool(TRUE)},
        limit \in {Absent, Whole(1), Whole(-1)},
        pageValue \in {Absent, Whole(3), Str("abc")}}

\* the fetch-all switch as set for operations with both, one or none of the
\* paging fields
ToggleItem(resource, operation, getAll) ==
    Item(resource, operation.operationValue,
         Entry(queryGetAllParamName(operation), getAll)
         @@ Entry(pathParamName(OpGet, OpGet.pathUi[1]), Str("7")),
         {})

ToggleInputs ==
    {ToggleItem(target[1], target[2], getAll) :
        target \in {<<"order", OpList>>, <<"order", OpGet>>,
                    <<"product", OpListLimitOnly>>, <<"product", OpListPageOnly>>},
        getAll \in {Absent, Bool(TRUE), Bool(FALSE)}}

\* the path fields as supplied
PathValues == {Absent, Null, Str(""), Str(" "), Str("7"), Str("new")}

PathItem(operation, values) ==
    Item("buyer", operation.operationValue,
         LET supplied == {i \in DOMAIN operation.pathUi : values[i] # Absent}
         IN  [name \in {pathParamName(operation, operation.pathUi[i]) : i \in supplied} |->
                 values[CHOOSE i \in supplied :
                          pathParamName(operation, operation.pathUi[i]) = name]],
         {})

PathInputs ==
    {PathItem(OpGetOptional, <<first, second>>) : first \in PathValues, second \in PathValues}
    \cup {PathItem(OpGetTwice, <<first>>) : first \in PathValues}

StageInputs ==
    LoopInputs \cup CreateInputs \cup PagingInputs \cup FilterInputs \cup FetchAllInputs
        \cup ToggleInputs \cup PathInputs

(***************************************************************************)
(* Responses.  A shape says what the server puts into a response; the      *)
(* items of a response carry the page and the position they were sent at.  *)
(***************************************************************************)
ItemAt(pg, k) == Obj((KId :> Whole(pg)) @@ (KPos :> Whole(k)))
ItemsOf(pg, n) == [k \in 1..n |-> ItemAt(pg, k)]

Shape(body, n, meta) == [body |-> body, n |-> n, meta |-> meta]
NoMeta == <<>>

Resp(shape, pg) ==
    CASE shape.body = "array" -> Arr(ItemsOf(pg, shape.n))
      [] shape.body = "scalars" -> Arr([k \in 1..shape.n |-> Whole(k)])
      [] shape.body = "data" -> Obj((KData :> Arr(ItemsOf(pg, shape.n))) @@ shape.meta)
      [] shape.body = "items" -> Obj((TokItems :> Arr(ItemsOf(pg, shape.n))) @@ shape.meta)
      [] shape.body = "plain" -> Obj((KId :> Whole(pg)) @@ shape.meta)
      [] shape.body = "string" -> Str("OK")
      [] shape.body = "null" -> Null
      [] OTHER -> Undef

CurrentLast(c, l) == (KCurrentPage :> c) @@ (KLastPage :> l)
PageLast(c, l) == (TokPage :> c) @@ (KLastPage :> l)

\* the responses of the runs with several items
LeanShapes ==
    {Shape("array", 0, NoMeta), Shape("array", 1, NoMeta), Shape("undefined", 0, NoMeta),
     Shape("plain", 0, NoMeta), Shape("data", 1, CurrentLast(Whole(1), Whole(2)))}

\* the responses of the runs of one pagination loop
AllShapes ==
    {Shape("array", n, NoMeta) : n \in 0..3}
    \cup {Shape("scalars", 2, NoMeta), Shape("undefined", 0, NoMeta),
          Shape("string", 0, NoMeta), Shape("null", 0, NoMeta),
          Shape("plain", 0, NoMeta), Shape("data", 2, NoMeta), Shape("items", 1, NoMeta)}
    \cup {Shape("data", n, CurrentLast(Whole(c), Whole(2))) : n \in {0, 2}, c \in 1..3}
    \cup {Shape("data", 0, CurrentLast(Str("1"), Str("2"))),
          Shape("data", 2, CurrentLast(Whole(1), Whole(0))),
          Shape("data", 1, PageLast(Whole(1), Whole(2))),
          Shape("data", 2, PageLast(Whole(2), Whole(2))),
          Shape("data", 1, KNextPageUrl :> Str("/order?page=2")),
          Shape("data", 2, KNextPageUrl :> Null),
          Shape("items", 1, KLinks :> Obj(KNext :> Str("/order?page=2"))),
          Shape("data", 2, KLinks :> Obj(KNext :> Null))}

(***************************************************************************)
(* Output records.  'of' is not in the code: it names the input item that  *)
(* contributed the record.                                                 *)
(***************************************************************************)
\* this.helpers.returnJsonArray: one record per element
returnJsonArray(values) == [i \in DOMAIN values |-> [json |-> values[i]]]

normalizeResponseData(data) ==
    IF IsArray(data) THEN returnJsonArray(data.a)
    ELSE IF isObject(data) THEN <<[json |-> data]>>
    ELSE IF data.t \in {"null", "string", "number", "boolean"}
    THEN <<[json |-> Obj(TokValue :> data)]>>
    ELSE <<[json |-> Obj(TokValue :> Undef)]>>

DataRecords(records, idx) ==
    [i \in DOMAIN records |-> [kind |-> "data", json |-> records[i].json, of |-> idx]]

\* an error record paired with the first input item whatever item failed
ErrorRecordPairedWithFirst(error, idx) ==
    [kind |-> "error", json |-> [error |-> <<error.text, error.arg>>],
     pairedItem |-> 0, of |-> idx]

\* error instanceof Error ? error.message : String(error)
ErrorRecord(error, idx) ==
    [kind |-> "error", json |-> [error |-> <<error.text, error.arg>>],
     pairedItem |-> idx, of |-> idx]

\* new NodeOperationError(this.getNode(), error, { itemIndex })
WrappedError(error, idx) ==
    [type |-> "NodeOperationError", text |-> error.text, arg |-> error.arg,
     itemIndex |-> idx, cause |-> error]

(***************************************************************************)
(* buildNodeProperties: the properties compiled for the operations of a    *)
(* metadata document.  The two selectors named 'resource' and 'operation', *)
(* whose names are literals, are left out.                                 *)
(***************************************************************************)
Property(name, type, required, options) ==
    [name |-> name, type |-> type, required |-> required, options |-> options]

RECURSIVE Flatten(_, _)
\* the concatenation of the sequences seqs[i], seqs[i + 1], ...
Flatten(seqs, i) == IF i > Len(seqs) THEN <<>> ELSE seqs[i] \o Flatten(seqs, i + 1)

getCustomFieldModelForResource(resourceValue) ==
    CASE resourceValue \in {"buyer", "company"} -> "client"
      [] resourceValue = "order" -> "order"
      [] resourceValue = "pipelines" -> "lead"
      [] resourceValue = "products" -> "crm_product"
      [] OTHER -> ""

PathProperties(operation) ==
    [i \in DOMAIN operation.pathUi |->
        Property(pathParamName(operation, operation.pathUi[i]), "string",
                 operation.pathUi[i].required, <<>>)]

IsRegularSimpleField(field) == field.name # TokPage /\ field.name # TokLimit

SimpleProperty(operation, simpleField) ==
    Property(querySimpleParamName(operation, simpleField),
             IF Len(simpleField.enumValues) > 0 THEN "options"
             ELSE IF simpleField.schemaType \in {"number", "integer"} THEN "number"
             ELSE IF simpleField.schemaType = "boolean" THEN "boolean"
             ELSE IF simpleField.format = "date-time" THEN "dateTime"
             ELSE "string",
             FALSE, <<>>)

SimpleProperties(operation) ==
    [i \in DOMAIN SelectSeq(operation.queryUi.simple, IsRegularSimpleField) |->
        SimpleProperty(operation,
                       SelectSeq(operation.queryUi.simple, IsRegularSimpleField)[i])]

LimitProperty(operation) ==
    Property(querySimpleParamName(operation, LimitFieldOf(operation)), "number", FALSE, <<>>)

OptionsProperty(operation) ==
    Property(queryOptionsCollectionParamName(operation), "collection", FALSE,
             <<Property(queryPageOptionParamName(operation), "number", FALSE, <<>>)>>)

PagingProperties(operation) ==
    IF HasPageField(operation) /\ HasLimitField(operation)
    THEN <<Property(queryGetAllParamName(operation), "boolean", FALSE, <<>>),
           LimitProperty(operation), OptionsProperty(operation)>>
    ELSE IF HasLimitField(operation) THEN <<LimitProperty(operation)>>
    ELSE IF HasPageField(operation) THEN <<OptionsProperty(operation)>>
    ELSE <<>>

IncludeSortProperties(operation) ==
    (IF Len(operation.queryUi.include) > 0
     THEN <<Property(queryIncludeParamName(operation), "multiOptions", FALSE, <<>>)>>
     ELSE <<>>)
    \o (IF Len(operation.queryUi.sort) > 0
        THEN <<Property(querySortParamName(operation), "options", FALSE, <<>>)>>
        ELSE <<>>)

FilterOptions(operation, filterField) ==
    IF filterField.fieldType = "betweenDateTime"
    THEN <<Property(queryFilterFromParamName(operation, filterField), "dateTime", FALSE, <<>>),
           Property(queryFilterToParamName(operation, filterField), "dateTime", FALSE, <<>>)>>
    ELSE <<Property(queryFilterFieldParamName(operation, filterField),
                    IF filterField.fieldType \in {"number", "integer"} THEN "number"
                    ELSE IF filterField.fieldType = "boolean" THEN "boolean"
                    ELSE "string",
                    FALSE, <<>>)>>

FilterProperties(resourceValue, operation) ==
    IF Len(operation.queryUi.filters) = 0 THEN <<>>
    ELSE <<Property(queryFilterCollectionParamName(operation), "collection", FALSE,
              Flatten([i \in DOMAIN operation.queryUi.filters |->
                          FilterOptions(operation, operation.queryUi.filters[i])], 1)
              \o (IF getCustomFieldModelForResource(resourceValue) # ""
                  THEN <<Property(queryCustomFieldsFilterParamName(operation),
                                  "fixedCollection", FALSE, <<>>)>>
                  ELSE <<>>))>>

BodyProperties(operation) ==
    IF ~operation.bodyUi.present THEN <<>>
    ELSE (IF operation.bodyUi.contentType = "multipart/form-data"
             /\ operation.bodyUi.binaryProperty # <<>>
          THEN <<Property(bodyBinaryPropertyParamName(operation), "string", TRUE, <<>>)>>
          ELSE <<>>)
         \o [i \in DOMAIN operation.bodyUi.requiredFields |->
                createBodyFieldNodeProperty(operation, operation.bodyUi.requiredFields[i],
                                            TRUE)]
         \o (IF Len(operation.bodyUi.optionalFields) > 0
             THEN <<Property(bodyOptionalCollectionParamName(operation), "collection", FALSE,
                       [i \in DOMAIN operation.bodyUi.optionalFields |->
                           createBodyFieldNodeProperty(operation,
                               operation.bodyUi.optionalFields[i], FALSE)])>>
             ELSE <<>>)

OperationProperties(resourceValue, operation) ==
    PathProperties(operation) \o SimpleProperties(operation) \o PagingProperties(operation)
        \o IncludeSortProperties(operation) \o FilterProperties(resourceValue, operation)
        \o BodyProperties(operation)

buildNodeProperties(resources) ==
    Flatten([r \in DOMAIN resources |->
                Flatten([o \in DOMAIN resources[r].operations |->
                            OperationProperties(resources[r].resourceValue,
                                                resources[r].operations[o])], 1)], 1)

RECURSIVE Identifiers(_, _)
\* the names of the properties props[i], props[i + 1], ... and of all they nest
Identifiers(props, i) ==
    IF i > Len(props) THEN <<>>
    ELSE <<props[i].name>> \o Identifiers(props[i].options, 1) \o Identifiers(props, i + 1)

(***************************************************************************)
(* Metadata documents for the compiler: two operations of one resource,    *)
(* each with one field of every kind, all named by the same API path.      *)
(***************************************************************************)
NamingOperationIds == {<<"a">>, <<"A">>, <<"b">>, <<"a", "-", "b">>, <<"a", "_", "b">>}
NamingPaths == {<<"c">>, <<"b", ".", "c">>, <<"s", "o", "r", "t">>}

NamingOperation(operationId, apiPath) ==
    [operationValue |-> "op", operationId |-> operationId, method |-> "POST",
     path |-> <<[lit |-> "/x/"], [ph |-> apiPath]>>,
     pathUi |-> <<[name |-> apiPath, apiPath |-> apiPath, required |-> TRUE]>>,
     queryUi |-> [simple |-> <<SimpleField(TokPage, "integer", Undef),
                               SimpleField(TokLimit, "integer", Whole(2)),
                               SimpleField(apiPath, "string", Undef)>>,
                  include |-> <<"x">>,
                  sort |-> <<"id">>,
                  filters |-> <<[name |-> apiPath, fieldType |-> "betweenDateTime"]>>],
     bodyUi |-> JsonBodyUi(<<Primitive(apiPath, apiPath, TRUE, "string")>>, <<>>)]

NamingDocuments ==
    {[resources |-> <<[resourceValue |-> "order",
                       operations |-> <<NamingOperation(id1, path1),
                                        NamingOperation(id2, path2)>>]>>] :
        <<id1, path1, id2, path2>> \in
            {q \in NamingOperationIds \X NamingPaths \X NamingOperationIds \X NamingPaths :
                q[1] # q[3]}}

(***************************************************************************)
(* Keycrm.execute.  'inputData' and 'pageLog' are not in the code: the      *)
(* first is the input read so far, the second what the current or last     *)
(* pagination loop has seen.                                               *)
(***************************************************************************)
Idle == [active |-> FALSE]
Mixed == [body |-> "mixed"]
NoPages ==
    [pages |-> 0, items |-> 0, shape |-> [body |-> "none"], last |-> [body |-> "none"],
     state |-> "none", numeric |-> TRUE, bare |-> TRUE, full |-> TRUE]
NotReturned == [done |-> FALSE, data |-> <<>>]
Pending == [pending |-> TRUE]

\* the response has numbers as current_page and last_page, and last_page > 0
ExposesCurrentLast(response) ==
    /\ isObject(response)
    /\ IsNumber(Get(response, KCurrentPage)) /\ ~IsNaN(Get(response, KCurrentPage))
    /\ IsNumber(Get(response, KLastPage)) /\ Positive(Get(response, KLastPage))

\* the response has none of the fields the continuation test looks at
NoPaginationMetadata(response) ==
    isObject(response) =>
        /\ \A k \in {KCurrentPage, KLastPage, TokPage, KNextPageUrl} : ~Has(response, k)
        /\ ~Has(response, KLinks)

\* pageLog after one more response
Logged(shape, response, itemsCount, pageSize, state) ==
    [pages |-> pageLog.pages + 1,
     items |-> pageLog.items + itemsCount,
     shape |-> IF pageLog.pages = 0 \/ pageLog.shape = shape THEN shape ELSE Mixed,
     last |-> shape,
     state |-> state,
     numeric |-> pageLog.numeric /\ ExposesCurrentLast(response),
     bare |-> pageLog.bare /\ NoPaginationMetadata(response),
     full |-> pageLog.full /\ itemsCount >= pageSize]

InitWith(n) ==
    /\ pc = "item"
    /\ continueOnFail \in BOOLEAN
    /\ nItems = n
    /\ inputData = <<>>
    /\ itemIndex = 0
    /\ returnData = <<>>
    /\ cur = Idle
    /\ page = 1
    /\ aggregatedItems = <<>>
    /\ lastResponse = Undef
    /\ requests = <<>>
    /\ inFlight = {}
    /\ pageLog = NoPages
    /\ thrown = NoError
    /\ returned = NotReturned
    /\ fnArg = Idle
    /\ fnRes = Pending

Init == \E n \in 0..MaxItems : InitWith(n)

\* a catch block that wraps every error it rethrows
CatchWrappingAll(error) ==
    /\ IF continueOnFail
       THEN /\ returnData' = Append(returnData, ErrorRecord(error, itemIndex))
            /\ itemIndex' = itemIndex + 1
            /\ pc' = "item"
            /\ thrown' = thrown
       ELSE /\ pc' = "thrown"
            /\ thrown' = WrappedError(error, itemIndex)
            /\ UNCHANGED <<returnData, itemIndex>>
    /\ cur' = Idle
    /\ page' = 1
    /\ aggregatedItems' = <<>>
    /\ lastResponse' = Undef

\* aggregatedItems is kept by runs of pages: an entry stands for the items
\* of the pages first..last, which the server answered with the same shape
\* and which held 'each' items each.
RunItems(run) ==
    [j \in 1..(run.each * (run.last - run.first + 1)) |->
        extractPaginatedItems(Resp(run.shape, run.first + ((j - 1) \div run.each)))
            [((j - 1) % run.each) + 1]]

RECURSIVE ItemsOfRuns(_, _)
ItemsOfRuns(runs, i) ==
    IF i > Len(runs) THEN <<>> ELSE RunItems(runs[i]) \o ItemsOfRuns(runs, i + 1)

\* the array aggregatedItems of the code
AggregatedItems(aggregated) == ItemsOfRuns(aggregated, 1)

\* a catch block that outputs the items accumulated so far before the error
CatchKeepingItems(error) ==
    /\ IF continueOnFail
       THEN /\ returnData' =
                  Append(returnData
                            \o DataRecords(returnJsonArray(AggregatedItems(aggregatedItems)),
                                           itemIndex),
                         ErrorRecord(error, itemIndex))
            /\ itemIndex' = itemIndex + 1
            /\ pc' = "item"
            /\ thrown' = thrown
       ELSE /\ pc' = "thrown"
            /\ thrown' = IF error.type = "NodeOperationError"
                         THEN error ELSE WrappedError(error, itemIndex)
            /\ UNCHANGED <<returnData, itemIndex>>
    /\ cur' = Idle
    /\ page' = 1
    /\ aggregatedItems' = <<>>
    /\ lastResponse' = Undef

\* the catch block; the item's loop variables go out of scope
Catch(error) ==
    /\ IF continueOnFail
       THEN /\ returnData' = Append(returnData, ErrorRecord(error, itemIndex))
            /\ itemIndex' = itemIndex + 1
            /\ pc' = "item"
            /\ thrown' = thrown
       ELSE /\ pc' = "thrown"
            /\ thrown' = IF error.type = "NodeOperationError"
                         THEN error ELSE WrappedError(error, itemIndex)
            /\ UNCHANGED <<returnData, itemIndex>>
    /\ cur' = Idle
    /\ page' = 1
    /\ aggregatedItems' = <<>>
    /\ lastResponse' = Undef

\* the end of the try block (continue, or the end of the loop body)
NextItem(records) ==
    /\ returnData' = returnData \o DataRecords(records, itemIndex)
    /\ itemIndex' = itemIndex + 1
    /\ pc' = "item"
    /\ cur' = Idle
    /\ page' = 1
    /\ aggregatedItems' = <<>>
    /\ lastResponse' = Undef
    /\ thrown' = thrown

\* what the try block does with an item up to its first request
Resolve(item, itemIdx) ==
    Bind(getOperationMetadata(METADATA.resources, item.resource, item.operation),
         LAMBDA operationMeta :
            Bind(BuildRequest(operationMeta.meta, item, itemIdx),
                 LAMBDA requestOptions :
                    Ok([active |-> TRUE, item |-> item,
                        operation |-> operationMeta.meta,
                        request |-> requestOptions,
                        useGetAllWithPagination |->
                            GetAllOf(operationMeta.meta, item.p)])))

\* Resolve of every input item of the model at every index, evaluated once
Resolved ==
    [item \in ItemInputs \cup StageInputs |->
        [idx \in 0..MaxItems |-> Resolve(item, idx)]]

\* the loop entered for every operation with both paging fields
EntersLoopWithoutSwitch(operation, useGetAllWithPagination) ==
    HasPageField(operation) /\ HasLimitField(operation)

\* if (useGetAllWithPagination && pageField && limitField)
EntersLoop(operation, useGetAllWithPagination) ==
    useGetAllWithPagination /\ HasPageField(operation) /\ HasLimitField(operation)

\* the catch block, or the state in which the first request is issued
Prepared(prepared) ==
    IF prepared.err # NoError THEN Catch(prepared.err)
    ELSE /\ cur' = prepared.val
         /\ pc' = IF EntersLoop(prepared.val.operation,
                                prepared.val.useGetAllWithPagination)
                  THEN "page" ELSE "single"
         /\ page' = 1
         /\ aggregatedItems' = <<>>
         /\ lastResponse' = Undef
         /\ UNCHANGED <<returnData, itemIndex, thrown>>

\* one input item from the metadata lookup to the point of its first request
Prepare(inputs) ==
    /\ pc = "item"
    /\ itemIndex < nItems
    /\ \E item \in inputs :
          /\ inputData' = Append(inputData, item)
          /\ Prepared(Resolved[item][itemIndex])
    /\ pageLog' = NoPages
    /\ UNCHANGED <<continueOnFail, nItems, requests, inFlight, returned, fnArg, fnRes>>

\* The log of the calls of httpRequestWithAuthentication.  The page requests
\* of one item differ only in the page number: an entry stands for the
\* requests of pages first..last (0..0 for the single request of an item).
Request(pg, limit, failed) ==
    [item |-> itemIndex, first |-> pg, last |-> pg, limit |-> limit,
     options |-> cur.request, failed |-> failed]

Dispatch(log, pg, limit, failed) ==
    IF /\ Len(log) > 0 /\ ~failed
       /\ log[Len(log)].item = itemIndex /\ ~log[Len(log)].failed
       /\ log[Len(log)].first >= 1 /\ log[Len(log)].last = pg - 1
    THEN [log EXCEPT ![Len(log)].last = pg]
    ELSE Append(log, Request(pg, limit, failed))

\* options of a page request that carry the page but not the limit
paginatedRequestOptionsWithoutLimit(requestOptions, pageField, limitField, pg, pageSize) ==
    [requestOptions EXCEPT !.qs = Put(@, pageField.name, Whole(pg))]

\* { ...requestOptions, qs: { ...requestOptions.qs, [page]: page, [limit]: pageSize } }
paginatedRequestOptions(requestOptions, pageField, limitField, pg, pageSize) ==
    [requestOptions EXCEPT
        !.qs = Put(Put(@, pageField.name, Whole(pg)), limitField.name, Whole(pageSize))]

\* the options the request of page pg of a log entry was sent with
SentOptions(entry, operation, pg) ==
    IF pg = 0 THEN entry.options
    ELSE paginatedRequestOptions(entry.options, PageFieldOf(operation),
                                 LimitFieldOf(operation), pg, entry.limit)

\* the awaited single request is rejected, or it is resolved and its
\* response normalised
SingleAnswer(shapes) ==
    /\ \/ /\ requests' = Dispatch(requests, 0, 0, TRUE)
          /\ Catch(TransportError)
       \/ /\ requests' = Dispatch(requests, 0, 0, FALSE)
          /\ \E shape \in shapes : NextItem(normalizeResponseData(Resp(shape, 0)))
    /\ UNCHANGED <<continueOnFail, nItems, inputData, pageLog, returned, fnArg, fnRes>>

\* the single request of an item and the normalisation of its response
SingleRequest(shapes) ==
    /\ pc = "single"
    /\ SingleAnswer(shapes)
    /\ UNCHANGED inFlight

\* what the server may answer to the request for the current page
ServerAnswers(shapes, freePages, cap) ==
    IF page <= freePages THEN shapes
    ELSE IF page <= cap THEN shapes \cap {pageLog.shape}
    ELSE {}

\* the output of a finished pagination loop
LoopOutput(aggregated, response) ==
    IF Len(aggregated) > 0 THEN returnJsonArray(AggregatedItems(aggregated))
    ELSE IF response # Undef THEN normalizeResponseData(response)
    ELSE <<>>

\* if (pageItems.length > 0) aggregatedItems.push(...pageItems)
Aggregate(aggregated, shape, pg, pageItems) ==
    IF Len(pageItems) = 0 THEN aggregated
    ELSE IF /\ Len(aggregated) > 0
            /\ aggregated[Len(aggregated)].shape = shape
            /\ aggregated[Len(aggregated)].last = pg - 1
    THEN [aggregated EXCEPT ![Len(aggregated)].last = pg]
    ELSE Append(aggregated,
                [shape |-> shape, first |-> pg, last |-> pg, each |-> Len(pageItems)])

\* the loop body after the response has arrived
PageResponse(shape, response, pageSize, pageItems) ==
    IF hasMorePaginatedItems(response, page, pageSize, Len(pageItems))
    THEN /\ page' = page + 1
         /\ aggregatedItems' = Aggregate(aggregatedItems, shape, page, pageItems)
         /\ lastResponse' = response
         /\ pageLog' = Logged(shape, response, Len(pageItems), pageSize, "open")
         /\ pc' = "page"
         /\ UNCHANGED <<cur, returnData, itemIndex, thrown>>
    ELSE /\ NextItem(LoopOutput(Aggregate(aggregatedItems, shape, page, pageItems),
                                response))
         /\ pageLog' = Logged(shape, response, Len(pageItems), pageSize, "closed")

\* the awaited page request is rejected, or it is resolved and the loop
\* body goes on with its response
PageAnswer(shapes, freePages, cap) ==
    /\ \/ /\ requests' = Dispatch(requests, page,
                                    resolvePageSize(LimitFieldOf(cur.operation)), TRUE)
          /\ Catch(TransportError)
          /\ pageLog' = [pageLog EXCEPT !.state = "failed"]
       \/ /\ requests' = Dispatch(requests, page,
                                    resolvePageSize(LimitFieldOf(cur.operation)), FALSE)
          /\ \E shape \in ServerAnswers(shapes, freePages, cap) :
                PageResponse(shape, Resp(shape, page),
                             resolvePageSize(LimitFieldOf(cur.operation)),
                             extractPaginatedItems(Resp(shape, page)))
    /\ UNCHANGED <<continueOnFail, nItems, inputData, returned, fnArg, fnRes>>

\* one iteration of the pagination loop: a request, its response, the test
PageRequest(shapes, freePages, cap) ==
    /\ pc = "page"
    /\ ServerAnswers(shapes, freePages, cap) # {}
    /\ PageAnswer(shapes, freePages, cap)
    /\ UNCHANGED inFlight

\* return [returnData]
Return ==
    /\ pc = "item"
    /\ itemIndex = nItems
    /\ pc' = "done"
    /\ returned' = [done |-> TRUE, data |-> returnData]
    /\ UNCHANGED <<continueOnFail, nItems, inputData, itemIndex, returnData, cur, page,
                   aggregatedItems, lastResponse, requests, inFlight, pageLog, thrown,
                   fnArg, fnRes>>

Next ==
    \/ Prepare(ItemInputs)
    \/ SingleRequest(LeanShapes)
    \/ PageRequest(LeanShapes, MaxPages, MaxPages)
    \/ Return

Spec == Init /\ [][Next]_vars

\* one item, one pagination loop, followed up to the ceiling
InitLoop == InitWith(1)

NextLoop ==
    \/ Prepare(LoopInputs)
    \/ PageRequest(AllShapes, MaxPages, LoopCap)
    \/ Return

SpecLoop == InitLoop /\ [][NextLoop]_vars

(***************************************************************************)
(* execute with its awaits: a request is issued in one step and answered   *)
(* in a later one, and execute does nothing in between.                    *)
(***************************************************************************)
InFlight(pg) == [item |-> itemIndex, page |-> pg]
Waiting ==
    <<continueOnFail, nItems, inputData, itemIndex, returnData, cur, page, aggregatedItems,
      lastResponse, requests, pageLog, thrown, returned, fnArg, fnRes>>

\* await this.helpers.httpRequestWithAuthentication(...) of the single request
SendSingle ==
    /\ pc = "single"
    /\ inFlight' = inFlight \cup {InFlight(0)}
    /\ pc' = "awaitSingle"
    /\ UNCHANGED Waiting

ReceiveSingle(shapes) ==
    /\ pc = "awaitSingle"
    /\ inFlight' = inFlight \ {InFlight(0)}
    /\ SingleAnswer(shapes)

\* the requests of the pages issued one after the other without an await
SendPageNotAwaited(shapes, freePages, cap) ==
    /\ pc = "page"
    /\ ServerAnswers(shapes, freePages, cap) # {}
    /\ inFlight' = inFlight \cup {InFlight(page)}
    /\ page' = page + 1
    /\ UNCHANGED <<pc, continueOnFail, nItems, inputData, itemIndex, returnData, cur,
                   aggregatedItems, lastResponse, requests, pageLog, thrown, returned,
                   fnArg, fnRes>>

\* await this.helpers.httpRequestWithAuthentication(...) of the current page
SendPage(shapes, freePages, cap) ==
    /\ pc = "page"
    /\ ServerAnswers(shapes, freePages, cap) # {}
    /\ inFlight' = inFlight \cup {InFlight(page)}
    /\ pc' = "awaitPage"
    /\ UNCHANGED Waiting

ReceivePage(shapes, freePages, cap) ==
    /\ pc = "awaitPage"
    /\ inFlight' = inFlight \ {InFlight(page)}
    /\ PageAnswer(shapes, freePages, cap)

NextAwait ==
    \/ Prepare(ItemInputs)
    \/ SendSingle
    \/ ReceiveSingle(LeanShapes)
    \/ SendPage(LeanShapes, MaxPages, MaxPages)
    \/ ReceivePage(LeanShapes, MaxPages, MaxPages)
    \/ Return

SpecAwait == Init /\ [][NextAwait]_vars

\* one item, chosen among the inputs that exercise the stages
InitItem == InitWith(1)

NextStage ==
    \/ Prepare(StageInputs)
    \/ SingleRequest(LeanShapes)
    \/ PageRequest(LeanShapes, MaxPages, MaxPages)
    \/ Return

SpecItem == InitItem /\ [][NextStage]_vars

(***************************************************************************)
(* The compiler and the assembler applied on their own: execute is at rest, *)
(* fnArg is the argument and fnRes the result.                             *)
(***************************************************************************)
executeVars == <<continueOnFail, nItems, inputData, itemIndex, returnData, cur, page,
                 aggregatedItems, lastResponse, requests, inFlight, pageLog, thrown,
                 returned>>

InitFn(arguments) ==
    /\ pc = "fn"
    /\ fnArg \in arguments
    /\ fnRes = Pending
    /\ continueOnFail = FALSE
    /\ nItems = 0
    /\ inputData = <<>>
    /\ itemIndex = 0
    /\ returnData = <<>>
    /\ cur = Idle
    /\ page = 1
    /\ aggregatedItems = <<>>
    /\ lastResponse = Undef
    /\ requests = <<>>
    /\ inFlight = {}
    /\ pageLog = NoPages
    /\ thrown = NoError
    /\ returned = NotReturned

\* description.properties of the node: buildNodeProperties(METADATA.resources)
CompileDocument ==
    /\ pc = "fn"
    /\ fnRes' = buildNodeProperties(fnArg.resources)
    /\ pc' = "fn-done"
    /\ UNCHANGED <<fnArg, executeVars>>

InitNaming == InitFn(NamingDocuments)
NextNaming == CompileDocument
SpecNaming == InitNaming /\ [][NextNaming]_vars

\* body schemas nested up to depth levels below a field with this key and path
RECURSIVE BodySchemas(_, _, _)
BodySchemas(depth, apiKey, apiPath) ==
    {Primitive(apiKey, apiPath, required, schemaType) :
        required \in BOOLEAN, schemaType \in {"string", "integer", "boolean"}}
    \cup
    IF depth = 0 THEN {}
    ELSE {ObjectField(apiKey, apiPath, required,
                      <<child, Primitive(KAge, apiPath \o Dot \o KAge, FALSE, "integer")>>) :
             required \in BOOLEAN,
             child \in BodySchemas(depth - 1, KName, apiPath \o Dot \o KName)}
         \cup
         {ArrayField(apiKey, apiPath, required, itemField) :
             required \in BOOLEAN,
             itemField \in BodySchemas(depth - 1, apiKey, apiPath \o <<"[", "]">>)}

RECURSIVE Fill(_)
\* a value of the shape the property asks for, every identifier filled
FillAll(props) ==
    Obj([name \in {props[i].name : i \in DOMAIN props} |->
            Fill(props[CHOOSE i \in DOMAIN props : props[i].name = name])])

Fill(property) ==
    CASE property.type = "collection" -> FillAll(property.options)
      [] property.type = "fixedCollection" ->
            Obj(TokItems :> Arr(<<FillAll(property.options)>>))
      [] property.type = "number" -> Whole(1)
      [] property.type = "boolean" -> Bool(TRUE)
      [] OTHER -> Str("x")

\* the property compiled for the body field fnArg, and a filling of it
CompileBodyField ==
    /\ pc = "fn"
    /\ fnRes' = [property |-> createBodyFieldNodeProperty(OpCreate, fnArg, fnArg.required),
                 rawValue |-> Fill(createBodyFieldNodeProperty(OpCreate, fnArg,
                                                               fnArg.required)),
                 parsed |-> Pending]
    /\ pc' = "filled"
    /\ UNCHANGED <<fnArg, executeVars>>

\* parseBodyFieldValue applied to the filling
AssembleBodyField ==
    /\ pc = "filled"
    /\ fnRes' = [fnRes EXCEPT !.parsed = parseBodyFieldValue(fnArg, fnRes.rawValue, 0, OpCreate)]
    /\ pc' = "fn-done"
    /\ UNCHANGED <<fnArg, executeVars>>

InitBody == InitFn(BodySchemas(MaxDepth, KData, KData))
NextBody == CompileBodyField \/ AssembleBodyField
SpecBody == InitBody /\ [][NextBody]_vars

(***************************************************************************)
(* parseBodyFieldValue applied on its own to an object or an array field   *)
(* and a supplied value, complete or not.                                  *)
(***************************************************************************)
NameAndAge(apiPath, nameRequired) ==
    <<Primitive(KName, apiPath \o Dot \o KName, nameRequired, "string"),
      Primitive(KAge, apiPath \o Dot \o KAge, FALSE, "integer")>>
TagsOf(apiPath, required, itemRequired) ==
    ArrayField(KTags, apiPath, required, Primitive(KTags, apiPath \o Dot, itemRequired, "string"))

\* an object of two primitives
ObjectOfPrimitives ==
    {ObjectField(KData, KData, required, NameAndAge(KData, nameRequired)) :
        required \in BOOLEAN, nameRequired \in BOOLEAN}
\* an array of primitives
ArrayOfPrimitives ==
    {TagsOf(KTags, required, itemRequired) : required \in BOOLEAN, itemRequired \in BOOLEAN}
\* an array of objects
ArrayOfObjects ==
    {ArrayField(KTags, KTags, required,
                ObjectField(KTags, KTags \o Dot, FALSE, NameAndAge(KTags \o Dot, FALSE))) :
        required \in BOOLEAN}
\* an object that holds an array and a primitive
ObjectOfArray ==
    {ObjectField(KData, KData, required,
                 <<TagsOf(KData \o Dot \o KTags, FALSE, FALSE),
                   Primitive(KAge, KData \o Dot \o KAge, FALSE, "integer")>>) :
        required \in BOOLEAN}

\* the value supplied for an object field: every child supplied, blank or left out
SuppliedObject(field, first, second) ==
    Obj(Entry(bodyFieldParamName(OpCreate, field.children[1]), first)
        @@ Entry(bodyFieldParamName(OpCreate, field.children[2]), second))
\* the value supplied for an array field: entries under 'items'
SuppliedArray(entries) == Obj(TokItems :> Arr(entries))
UpToTwo(entries) ==
    {<<>>} \cup {<<e>> : e \in entries} \cup {<<e, f>> : e \in entries, f \in entries}
PrimitiveEntries(field) ==
    {Str("x"), EmptyObj}
    \cup {Obj(bodyFieldParamName(OpCreate, field.itemField) :> v) : v \in {Str("Ada"), Str(" ")}}
ObjectEntries(field) ==
    {Undef, EmptyObj, SuppliedObject(field.itemField, Str("Ada"), Absent),
     SuppliedObject(field.itemField, Str(" "), Str(""))}
SuppliedTags ==
    {Absent, EmptyObj}
    \cup {SuppliedArray(<<Obj(bodyFieldParamName(OpCreate,
                                 TagsOf(KData \o Dot \o KTags, FALSE, FALSE).itemField) :> v)>>) :
             v \in {Str("Ada"), Str(" ")}}

\* the values supplied for a field
SuppliedFor(field) ==
    IF field \in ObjectOfPrimitives
    THEN {Undef, Str("x")}
         \cup {SuppliedObject(field, name, age) : name \in NameValues, age \in AgeValues}
    ELSE IF field \in ArrayOfPrimitives
    THEN {Undef, EmptyObj, Obj(TokItems :> Str("x"))}
         \cup {SuppliedArray(entries) : entries \in UpToTwo(PrimitiveEntries(field))}
    ELSE IF field \in ArrayOfObjects
    THEN {Undef} \cup {SuppliedArray(entries) : entries \in UpToTwo(ObjectEntries(field))}
    ELSE {SuppliedObject(field, tags, age) : tags \in SuppliedTags, age \in AgeValues}

AssembleArguments ==
    UNION {{[field |-> field, rawValue |-> rawValue] : rawValue \in SuppliedFor(field)} :
              field \in ObjectOfPrimitives \cup ArrayOfPrimitives
                          \cup ArrayOfObjects \cup ObjectOfArray}

ApplyParseBodyFieldValue ==
    /\ pc = "fn"
    /\ fnRes' = parseBodyFieldValue(fnArg.field, fnArg.rawValue, 0, OpCreate)
    /\ pc' = "fn-done"
    /\ UNCHANGED <<fnArg, executeVars>>

InitAssemble == InitFn(AssembleArguments)
NextAssemble == ApplyParseBodyFieldValue
SpecAssemble == InitAssemble /\ [][NextAssemble]_vars

(***************************************************************************)
(* normalizeSimpleQueryValue and normalizePrimitiveValue applied to the    *)
(* same value for a field of the same type.                                *)
(***************************************************************************)
NormalizeValues ==
    {Undef, Null, Bool(TRUE), Bool(FALSE), Whole(0), Whole(1), NumH(3), Arr(<<>>),
     Str(""), Str(" "), Str("abc"), Str("2"), Str(" 2 "), Str("1.5"),
     Str("true"), Str("false"), Str("False"), Str("TRUE")}

NormalizeArguments ==
    [schemaType : {"string", "number", "integer", "boolean"}, value : NormalizeValues]

ApplyNormalize ==
    /\ pc = "fn"
    /\ fnRes' = [query |-> normalizeSimpleQueryValue(
                              SimpleField(KStatus, fnArg.schemaType, Undef), fnArg.value),
                 primitive |-> normalizePrimitiveValue(
                              Primitive(KStatus, KStatus, FALSE, fnArg.schemaType),
                              fnArg.value)]
    /\ pc' = "fn-done"
    /\ UNCHANGED <<fnArg, executeVars>>

InitNormalize == InitFn(NormalizeArguments)
NextNormalize == ApplyNormalize
SpecNormalize == InitNormalize /\ [][NextNormalize]_vars

(***************************************************************************)
(* shouldIncludeSimpleQueryValue applied on its own to a simple query      *)
(* field and a value.                                                      *)
(***************************************************************************)
IncludeFields ==
    {[SimpleField(KStatus, schemaType, Undef) EXCEPT !.required = required,
                                                     !.default = default] :
        schemaType \in {"string", "integer", "number", "boolean"},
        required \in BOOLEAN,
        default \in {Undef, Whole(0), Bool(FALSE)}}

IncludeValues ==
    {Undef, Null, Str(""), Str(" "), Arr(<<>>), EmptyObj,
     Whole(0), Whole(1), NumH(1), Str("0"), Str("abc"), Bool(FALSE), Bool(TRUE),
     Arr(<<Whole(0)>>), Arr(<<Whole(1)>>), Obj(KId :> Whole(0))}

ApplyShouldInclude ==
    /\ pc = "fn"
    /\ fnRes' = [included |-> shouldIncludeSimpleQueryValue(fnArg.field, fnArg.value)]
    /\ pc' = "fn-done"
    /\ UNCHANGED <<fnArg, executeVars>>

InitInclude == InitFn([field : IncludeFields, value : IncludeValues])
NextInclude == ApplyShouldInclude
SpecInclude == InitInclude /\ [][NextInclude]_vars

(***************************************************************************)
(* hasMorePaginatedItems applied on its own to a response, a page number,  *)
(* a page size and an item count.                                          *)
(***************************************************************************)
MetadataObjects ==
    {Obj(Entry(KCurrentPage, currentPage) @@ Entry(KLastPage, lastPage)
         @@ Entry(TokPage, metaPage) @@ Entry(KNextPageUrl, nextPageUrl)
         @@ Entry(KLinks, links)) :
        currentPage \in {Absent, Whole(1), Whole(2), Whole(3), Str("1"), Str("abc")},
        lastPage \in {Absent, Whole(0), Whole(2), Str("2")},
        metaPage \in {Absent, Whole(1), Whole(2)},
        nextPageUrl \in {Absent, Null, Str(""), Str("/order?page=2")},
        links \in {Absent, EmptyObj, Obj(KNext :> Null),
                   Obj(KNext :> Str("/order?page=2")), Str("/order?page=2")}}

HasMoreArguments ==
    [response : MetadataObjects \cup {Undef, Null, Arr(<<>>)},
     page : {1, PageCeiling - 1, PageCeiling},
     pageSize : {2},
     itemsCount : {0, 2, 3}]

ApplyHasMore ==
    /\ pc = "fn"
    /\ fnRes' = [more |-> hasMorePaginatedItems(fnArg.response, fnArg.page,
                                                fnArg.pageSize, fnArg.itemsCount)]
    /\ pc' = "fn-done"
    /\ UNCHANGED <<fnArg, executeVars>>

InitHasMore == InitFn(HasMoreArguments)
NextHasMore == ApplyHasMore
SpecHasMore == InitHasMore /\ [][NextHasMore]_vars

(***************************************************************************)
(* KeycrmApi.authenticate: the expression that makes the Authorization     *)
(* header of every request from the stored API token.                      *)
(***************************************************************************)
BearerPrefix == <<"B", "e", "a", "r", "e", "r", " ">>

StartsWith(s, prefix) == Len(s) >= Len(prefix) /\ SubSeq(s, 1, Len(prefix)) = prefix

RECURSIVE TrimStart(_)
TrimStart(s) == IF s # <<>> /\ Head(s) = " " THEN TrimStart(Tail(s)) ELSE s

RECURSIVE TrimEnd(_)
TrimEnd(s) ==
    IF s # <<>> /\ s[Len(s)] = " " THEN TrimEnd(SubSeq(s, 1, Len(s) - 1)) ELSE s

\* String.prototype.trim
Trim(s) == TrimEnd(TrimStart(s))

\* $credentials.apiToken && <trimmed, lowercased>.startsWith("bearer ")
\*     ? <trimmed> : "Bearer " + <trimmed>
authenticate(apiToken) ==
    IF apiToken # <<>> /\ StartsWith(ToLowerCase(Trim(apiToken)), ToLowerCase(BearerPrefix))
    THEN Trim(apiToken)
    ELSE BearerPrefix \o Trim(apiToken)

RECURSIVE CaseVariants(_)
\* the word in every letter case
CaseVariants(word) ==
    IF word = <<>> THEN {<<>>}
    ELSE {<<c>> \o rest :
            c \in {Head(word), ToLowerChar(Head(word))}
                  \cup {UpperCase[i] : i \in {j \in DOMAIN LowerCase :
                                                LowerCase[j] = ToLowerChar(Head(word))}},
            rest \in CaseVariants(Tail(word))}

\* stored tokens: bare, padded, and with the prefix in every letter case
ApiTokens ==
    {<<>>, <<"k", "1">>, <<" ", "k", "1", " ">>, <<"b", "e", "a", "r", "e", "r">>,
     <<"B", "e", "a", "r", "e", "r", "k", "1">>}
    \cup {prefix \o <<"k", "1">> : prefix \in CaseVariants(BearerPrefix)}
    \cup {<<" ">> \o prefix \o <<"k", "1">> : prefix \in {BearerPrefix, ToLowerCase(BearerPrefix)}}

\* the Authorization header of a request
Authenticate ==
    /\ pc = "fn"
    /\ fnRes' = authenticate(fnArg)
    /\ pc' = "fn-done"
    /\ UNCHANGED <<fnArg, executeVars>>

InitAuth == InitFn(ApiTokens)
NextAuth == Authenticate
SpecAuth == InitAuth /\ [][NextAuth]_vars

(***************************************************************************)
(* Properties of execute.  Items are counted from 0 as itemIndex does.      *)
(***************************************************************************)
Processed == 0..(Len(inputData) - 1)
InputItem(i) == inputData[i + 1]
RequestsOf(i) == {k \in DOMAIN requests : requests[k].item = i}
RecordsOf(i) == {k \in DOMAIN returnData : returnData[k].of = i}
FailedRequest(i) == \E k \in RequestsOf(i) : requests[k].failed
\* what the metadata lookup and the three stages raise for an item at an index
StageErrors(item, idx) ==
    LET found == getOperationMetadata(METADATA.resources, item.resource, item.operation)
    IN  IF found.err # NoError
        THEN [metadata |-> found.err, path |-> NoError, query |-> NoError, body |-> NoError]
        ELSE [metadata |-> NoError,
              path |-> PathStage(found.val.meta, item.p, idx).err,
              query |-> QueryStage(found.val.meta, item.p, idx).err,
              body |-> BodyStage(found.val.meta, item, idx).err]

\* StageErrors of every input item of the model at every index, evaluated once
StageErrorsOf ==
    [item \in ItemInputs \cup StageInputs |->
        [idx \in 0..MaxItems |-> StageErrors(item, idx)]]

UnknownOperation(i) == StageErrorsOf[InputItem(i)][i].metadata # NoError
PathError(i) == StageErrorsOf[InputItem(i)][i].path # NoError
QueryError(i) == StageErrorsOf[InputItem(i)][i].query # NoError
BodyError(i) == StageErrorsOf[InputItem(i)][i].body # NoError
\* the first error raised for item i before its request
RaisedBeforeRequest(i) ==
    IF UnknownOperation(i) THEN StageErrorsOf[InputItem(i)][i].metadata
    ELSE IF PathError(i) THEN StageErrorsOf[InputItem(i)][i].path
    ELSE IF QueryError(i) THEN StageErrorsOf[InputItem(i)][i].query
    ELSE StageErrorsOf[InputItem(i)][i].body
Errored(i) == RaisedBeforeRequest(i) # NoError \/ FailedRequest(i)
RaisedFor(i) ==
    IF RaisedBeforeRequest(i) # NoError THEN RaisedBeforeRequest(i) ELSE TransportError

\* the last response of the pagination loop and what the loop made of it
LoopSeen == pageLog.pages > 0 /\ pageLog.state \in {"open", "closed"}
LoopOpen == pageLog.state = "open"
LoopClosed == pageLog.state = "closed"
LastLoopResponse == Resp(pageLog.last, pageLog.pages)
LastCurrentPage == Get(LastLoopResponse, KCurrentPage)
LastLastPage == Get(LastLoopResponse, KLastPage)
LastShort ==
    Len(extractPaginatedItems(LastLoopResponse)) < resolvePageSize(LimitFieldOf(OpList))
\* the requests of the loop were those of pages 1, 2, ..., pageLog.pages
PagesInOrder ==
    /\ Len(requests) = 1
    /\ requests[1].first = 1 /\ requests[1].last = pageLog.pages
    /\ ~requests[1].failed

\* C1 (as amended): in fetch-all mode, while every response exposes numeric
\* current_page and last_page with last_page > 0, the loop goes on exactly
\* while current_page < last_page, so it stops after the first response with
\* current_page >= last_page and requests nothing after it; it then outputs
\* as many records as the pages held items, or, when no page held an item,
\* the one record of the last response.
C1_StopsAtOrPastLastPage ==
    (LoopSeen /\ pageLog.numeric) =>
        /\ LoopOpen <=> LessThan(LastCurrentPage, LastLastPage)
        /\ LoopClosed =>
              /\ PagesInOrder
              /\ IF pageLog.items > 0
                 THEN Len(returnData) = pageLog.items
                 ELSE returnData = <<[kind |-> "data", json |-> LastLoopResponse, of |-> 0]>>

\* a loop of at least two pages with numeric metadata that stopped and output items
C1_Witness ==
    /\ LoopClosed /\ pageLog.numeric /\ pageLog.pages >= 2 /\ pageLog.items >= 2
    /\ Len(returnData) = pageLog.items

\* C1 (as stated): the loop stops exactly at current_page == last_page and the
\* number of records it outputs is the sum of the item counts of the pages.
C1_StopsExactlyAtLastPage ==
    (LoopSeen /\ pageLog.numeric) =>
        /\ LoopClosed <=> LastCurrentPage = LastLastPage
        /\ LoopClosed => Len(returnData) = pageLog.items

\* C2 (as stated): an item with an unknown (resource, operation) pair makes
\* execute throw, for every value of continueOnFail(); no error record is
\* written for it, no later item is read and nothing is returned.
C2_ConfigurationErrorAborts ==
    \A i \in Processed :
        UnknownOperation(i) =>
            /\ pc = "thrown"
            /\ RecordsOf(i) = {}
            /\ Len(inputData) = i + 1
            /\ ~returned.done

\* C3 (as stated): when execute has returned, every input item has at least
\* one record, data or error, in the output.
C3_NoSilentDrops ==
    returned.done => \A i \in 0..(nItems - 1) : RecordsOf(i) # {}

\* C4: with continueOnFail() true, an error raised for item i (by the metadata
\* lookup, a stage, or the transport) leaves exactly one record for item i, an
\* error record paired with i; execute has moved on past i and has not thrown.
C4_ErrorBecomesOneRecord ==
    continueOnFail =>
        /\ pc # "thrown" /\ thrown = NoError
        /\ \A i \in Processed :
              Errored(i) =>
                 /\ itemIndex > i
                 /\ pc \in {"item", "single", "page", "done"}
                 /\ \E k \in DOMAIN returnData :
                       /\ RecordsOf(i) = {k}
                       /\ returnData[k].kind = "error"
                       /\ returnData[k].pairedItem = i

\* the second item failed at the transport and the run went on to return
C4_Witness ==
    /\ continueOnFail /\ returned.done /\ Len(inputData) = 2
    /\ ~Errored(0) /\ FailedRequest(1)
    /\ returnData[Len(returnData)].kind = "error"

\* C5: with continueOnFail() false, the first error of an item ends the run:
\* execute is in its thrown state at that item, has returned nothing, has read
\* no later item and issued no request for one; what it threw is the error
\* itself if that was a NodeOperationError, else a NodeOperationError wrapping
\* it with the item's index.
C5_FirstErrorAborts ==
    ~continueOnFail =>
        /\ pc = "thrown" <=> \E i \in Processed : Errored(i)
        /\ \A i \in Processed :
              Errored(i) =>
                 /\ pc = "thrown" /\ itemIndex = i /\ Len(inputData) = i + 1
                 /\ returned = NotReturned
                 /\ \A k \in DOMAIN requests : requests[k].item <= i
                 /\ thrown.type = "NodeOperationError" /\ thrown.itemIndex = i
                 /\ IF RaisedFor(i).type = "NodeOperationError"
                    THEN thrown = RaisedFor(i)
                    ELSE thrown = WrappedError(RaisedFor(i), i)

\* the run was aborted at its second item after the first had output records
C5_Witness ==
    /\ ~continueOnFail /\ pc = "thrown" /\ itemIndex = 1
    /\ Len(returnData) > 0 /\ returned = NotReturned
    /\ thrown.type = "NodeOperationError"

\* C6: in fetch-all mode, while no response carries pagination metadata and
\* every page holds pageSize or more items, the loop requests pages 1, 2, ...
\* in order, goes on below page 1000 and stops at page 1000.
C6_FullPagesStopAtCeiling ==
    (LoopSeen /\ pageLog.bare /\ pageLog.full) =>
        /\ pageLog.pages <= PageCeiling
        /\ LoopOpen <=> pageLog.pages < PageCeiling
        /\ LoopClosed => PagesInOrder

\* the loop has ended after exactly PageCeiling requests, all answered by full pages
C6_Witness ==
    /\ LoopClosed /\ pageLog.bare /\ pageLog.full
    /\ pageLog.pages = PageCeiling /\ PagesInOrder

\* C7 (as amended): in fetch-all mode, while responses carry no pagination
\* metadata, the loop ends with the first page that holds fewer items than
\* the page size, and a page that ends it is either short or page 1000.
C7_StopsAfterShortPage ==
    (LoopSeen /\ pageLog.bare) =>
        /\ LoopOpen => ~LastShort
        /\ LoopClosed => PagesInOrder /\ (LastShort \/ pageLog.pages = PageCeiling)

\* full pages without metadata, then a short one, which ended the loop
C7_Witness ==
    /\ LoopClosed /\ pageLog.bare /\ LastShort /\ pageLog.pages >= 2
    /\ PagesInOrder

\* C7 (as stated): without metadata only a short page ends the loop.
C7_OnlyShortPageStops ==
    (LoopSeen /\ pageLog.bare) =>
        /\ LoopOpen => ~LastShort
        /\ LoopClosed => LastShort

\* the identifiers list has the same name at two places
HasDuplicate(names) == \E i, j \in DOMAIN names : i < j /\ names[i] = names[j]

\* C8 (as stated): the identifiers compiled for a metadata document, those of
\* all operations and all their fields and controls, are pairwise distinct.
C8_IdentifiersPairwiseDistinct ==
    pc = "fn-done" => ~HasDuplicate(Identifiers(fnRes, 1))

RECURSIVE Recovered(_, _)
\* value holds the API keys of field: every required key of an object, and
\* every entry of an array, at its place
Recovered(field, value) ==
    IF field.kind = "primitive" THEN value.t \in {"string", "number", "boolean"}
    ELSE IF field.kind = "object"
    THEN /\ isObject(value)
         /\ \A i \in DOMAIN field.children :
               field.children[i].required =>
                  /\ Has(value, field.children[i].apiKey)
                  /\ Recovered(field.children[i], Get(value, field.children[i].apiKey))
    ELSE /\ IsArray(value)
         /\ Len(value.a) > 0
         /\ \A k \in DOMAIN value.a : Recovered(field.itemField, value.a[k])

\* C9 (as stated): for a body field compiled by createBodyFieldNodeProperty
\* and filled in the shape it emits, parseBodyFieldValue succeeds, and for a
\* required field its result holds every required API key at its nested place.
C9_RoundTrip ==
    pc = "fn-done" =>
        /\ fnRes.parsed.err = NoError
        /\ fnArg.required => Recovered(fnArg, fnRes.parsed.val)

\* C10: an item for which the path stage, the query stage or the body stage
\* raises an error has no request in the log of requests.
C10_NoRequestAfterValidationError ==
    \A i \in Processed :
        (PathError(i) \/ QueryError(i) \/ BodyError(i)) => RequestsOf(i) = {}

\* an item whose body failed was passed over and the next item was dispatched
C10_Witness ==
    /\ Len(inputData) = 2 /\ BodyError(0) /\ RequestsOf(0) = {}
    /\ RequestsOf(1) # {}


(***************************************************************************)
(* Properties of the runs of one item.                                     *)
(***************************************************************************)
\* what the item supplies for a child of the body field 'data'
SuppliedChild(item, k) ==
    LET dataName == bodyFieldParamName(OpCreate, DataField)
        childName == bodyFieldParamName(OpCreate, DataField.children[k])
    IN  IF dataName \in DOMAIN item.p /\ Has(item.p[dataName], childName)
        THEN Get(item.p[dataName], childName)
        ELSE Absent
\* the error record or the thrown error of the run of one item
Reported(error) ==
    IF continueOnFail
    THEN pc \in {"item", "done"} /\ returnData = <<ErrorRecord(error, 0)>>
    ELSE pc = "thrown" /\ thrown = error

SuppliedLimit(item) ==
    getNodeParameter(item.p, querySimpleParamName(OpList, OpList.queryUi.simple[2]), Absent)
SuppliedPage(item) ==
    LET optionsSource == getNodeParameter(item.p, queryOptionsCollectionParamName(OpList),
                                          EmptyObj)
    IN  IF Has(optionsSource, queryPageOptionParamName(OpList))
        THEN Get(optionsSource, queryPageOptionParamName(OpList))
        ELSE Absent
\* the value is a whole number greater than 0, as a number or as its text
IsPositiveInteger(value) == Positive(ToNumber(value)) /\ ToNumber(value).h % 2 = 0
Malformed(value) == value # Absent /\ ~IsPositiveInteger(value)

\* C13 (as stated): with the fetch-all switch off, an item that supplies a
\* limit or a page that is not a positive integer fails with a validation
\* error raised by the query stage, and no request is sent for it.
C13_PagingValuesValidated ==
    \A i \in Processed :
        (InputItem(i) \in PagingInputs
            /\ (Malformed(SuppliedLimit(InputItem(i))) \/ Malformed(SuppliedPage(InputItem(i))))) =>
            /\ QueryError(i)
            /\ ~cur.active
            /\ RequestsOf(i) = {}

\* the two ends of the date range the item supplies
SuppliedEnd(item, name) ==
    LET filterSource == getNodeParameter(item.p, queryFilterCollectionParamName(OpList),
                                         EmptyObj)
    IN  IF Has(filterSource, name) THEN Get(filterSource, name) ELSE Absent
SuppliedFrom(item) ==
    SuppliedEnd(item, queryFilterFromParamName(OpList, OpList.queryUi.filters[1]))
SuppliedTo(item) ==
    SuppliedEnd(item, queryFilterToParamName(OpList, OpList.queryUi.filters[1]))
Blank(value) == value \in {Absent, Null, Str(""), Str(" ")}
IsDate(value) == ~Blank(value) /\ UtcDateTimeText(value.s) # ""
\* the query holds, under filter.created, the range of the two ends
HoldsRange(qs, fromValue, toValue) ==
    /\ Has(qs, TokFilter)
    /\ Get(Get(qs, TokFilter), KCreated) =
          Str(UtcDateTimeText(fromValue.s) \o ", " \o UtcDateTimeText(toValue.s))
HoldsNoRange(qs) == Has(qs, TokFilter) => ~Has(Get(qs, TokFilter), KCreated)
\* the query of what the item has sent or is about to send
QueryOfItem(i, Holds(_)) ==
    /\ cur.active => Holds(cur.request.qs)
    /\ \A k \in RequestsOf(i) : Holds(requests[k].options.qs)
NotSent(i) == ~cur.active /\ RequestsOf(i) = {}

\* C15 (as amended): for the betweenDateTime filter, an item with exactly one
\* non-empty end fails with the validation error of the filter and nothing
\* is sent; with both ends non-empty and both dates, the query holds under
\* the filter's name the text '<from>, <to>' of the two formatted ends; with
\* both ends non-empty and one of them no date, the item fails with the
\* formatter's error and nothing is sent; with both ends empty the filter's
\* key is absent from the query.
C15_DateRangeSymmetry ==
    \A i \in Processed :
        InputItem(i) \in FilterInputs =>
            LET fromValue == SuppliedFrom(InputItem(i))
                toValue == SuppliedTo(InputItem(i))
            IN  /\ Blank(fromValue) # Blank(toValue) =>
                      /\ NotSent(i)
                      /\ Reported(NodeOperationError("Filter expects both from and to",
                                                     KCreated, i))
                /\ (IsDate(fromValue) /\ IsDate(toValue)) =>
                      /\ ~QueryError(i)
                      /\ QueryOfItem(i, LAMBDA qs : HoldsRange(qs, fromValue, toValue))
                /\ (~Blank(fromValue) /\ ~Blank(toValue)
                        /\ ~(IsDate(fromValue) /\ IsDate(toValue))) =>
                      /\ NotSent(i)
                      /\ RaisedBeforeRequest(i).type = "ApplicationError"
                      /\ RaisedBeforeRequest(i).text = "Invalid date value"
                /\ (Blank(fromValue) /\ Blank(toValue)) =>
                      /\ ~QueryError(i)
                      /\ QueryOfItem(i, HoldsNoRange)

\* a request was sent with the range of two dates under filter.created
C15_Witness ==
    /\ Len(inputData) = 1 /\ inputData[1] \in FilterInputs
    /\ SuppliedFrom(inputData[1]) = Str("2024-01-01T10:00:00+02:00")
    /\ SuppliedTo(inputData[1]) = Str("2024-01-31")
    /\ Len(requests) = 1 /\ ~requests[1].failed
    /\ Get(Get(requests[1].options.qs, TokFilter), KCreated)
          = Str("2024-01-01 08:00:00, 2024-01-31 00:00:00")

\* C15 (as stated): with both ends non-empty the filter always holds the
\* range; with one the item fails; with none the key is absent.
C15_BothEndsGiveRange ==
    \A i \in Processed :
        InputItem(i) \in FilterInputs =>
            LET fromValue == SuppliedFrom(InputItem(i))
                toValue == SuppliedTo(InputItem(i))
            IN  /\ Blank(fromValue) # Blank(toValue) => NotSent(i) /\ QueryError(i)
                /\ (~Blank(fromValue) /\ ~Blank(toValue)) =>
                      /\ ~QueryError(i)
                      /\ QueryOfItem(i, LAMBDA qs : HoldsRange(qs, fromValue, toValue))
                /\ (Blank(fromValue) /\ Blank(toValue)) => QueryOfItem(i, HoldsNoRange)

\* the query without its page
WithoutPage(qs) == [k \in DOMAIN qs.o \ {TokPage} |-> qs.o[k]]
\* the log entries of item i are those of pages 1, 2, ... without gap
PagesFromOne(i) ==
    \A k \in RequestsOf(i) :
        /\ requests[k].first <= requests[k].last
        /\ IF k - 1 \in RequestsOf(i)
           THEN requests[k].first = requests[k - 1].last + 1
           ELSE requests[k].first = 1

\* C16: in fetch-all mode the requests of an item carry page = 1, 2, 3, ...
\* without gap or repetition and limit = the resolved page size, whatever
\* limit or page the item supplies; the query without its page, the URL, the
\* method and the body are the same for all pages.
C16_PagesOfFetchAll ==
    \A i \in Processed :
        InputItem(i) \in FetchAllInputs =>
            /\ PagesFromOne(i)
            /\ \A k \in RequestsOf(i) :
                  \A pg \in {requests[k].first, requests[k].last} :
                     LET sent == SentOptions(requests[k], OpList, pg)
                     IN  /\ Get(sent.qs, TokPage) = Whole(pg)
                         /\ Get(sent.qs, TokLimit) = Whole(resolvePageSize(LimitFieldOf(OpList)))
                         /\ \A j \in RequestsOf(i) :
                               LET other == SentOptions(requests[j], OpList, requests[j].first)
                               IN  /\ WithoutPage(other.qs) = WithoutPage(sent.qs)
                                   /\ other.url = sent.url /\ other.method = sent.method
                                   /\ other.body = sent.body

\* three pages were requested for an item that supplies limit = 1 and page = 3
C16_Witness ==
    /\ Len(inputData) = 1
    /\ inputData[1] = FetchAllItem(Bool(TRUE), Whole(1), Whole(3))
    /\ Len(requests) = 1 /\ requests[1].first = 1 /\ requests[1].last = 3
    /\ requests[1].limit = 2

\* the operation of item i, for an item whose operation is known
OperationOf(i) ==
    getOperationMetadata(METADATA.resources, InputItem(i).resource,
                         InputItem(i).operation).val.meta
HasField(operation, name) ==
    \E k \in DOMAIN operation.queryUi.simple : operation.queryUi.simple[k].name = name
\* the fetch-all switch of item i: on unless the item sets it to false
ToggleOn(i) ==
    getNodeParameter(InputItem(i).p, queryGetAllParamName(OperationOf(i)), Bool(TRUE))
        = Bool(TRUE)
\* item i is in the pagination loop or has requested a page
InLoop(i) ==
    \/ cur.active /\ itemIndex = i /\ pc = "page"
    \/ \E k \in RequestsOf(i) : requests[k].first >= 1
\* execute is through with item i
Finished(i) == itemIndex > i \/ pc \in {"thrown", "done"}

\* C18: an item is in the pagination loop only if its operation has a page
\* field and a limit field and its fetch-all switch is on; every other item
\* that passes the stages before dispatch is sent as exactly one request, and
\* an item that fails before dispatch is sent as none.
C18_LoopOnlyForFetchAll ==
    \A i \in Processed :
        /\ RaisedBeforeRequest(i) # NoError => RequestsOf(i) = {} /\ ~InLoop(i)
        /\ RaisedBeforeRequest(i) = NoError =>
              IF HasField(OperationOf(i), TokPage) /\ HasField(OperationOf(i), TokLimit)
                    /\ ToggleOn(i)
              THEN \A k \in RequestsOf(i) : requests[k].first >= 1
              ELSE /\ ~InLoop(i)
                   /\ Cardinality(RequestsOf(i)) <= 1
                   /\ \A k \in RequestsOf(i) : requests[k].first = 0 /\ requests[k].last = 0
                   /\ Finished(i) => Cardinality(RequestsOf(i)) = 1

\* an operation with a limit field only and the switch on was sent as one request
C18_Witness ==
    /\ Len(inputData) = 1
    /\ inputData[1] = ToggleItem("product", OpListLimitOnly, Bool(TRUE))
    /\ returned.done
    /\ Len(requests) = 1 /\ requests[1].first = 0 /\ requests[1].last = 0

\* the items of pages 1..pages, every page answered with the same shape
PagesOfShape(shape, pages) ==
    LET each == Len(extractPaginatedItems(Resp(shape, 1)))
    IN  [j \in 1..(each * pages) |->
            extractPaginatedItems(Resp(shape, 1 + ((j - 1) \div each)))[((j - 1) % each) + 1]]
\* record k was sent by the server before record l: on an earlier page, or on
\* the same page at an earlier position
SentBefore(k, l) ==
    \/ AsInt(Get(returnData[k].json, KId)) < AsInt(Get(returnData[l].json, KId))
    \/ /\ Get(returnData[k].json, KId) = Get(returnData[l].json, KId)
       /\ AsInt(Get(returnData[k].json, KPos)) < AsInt(Get(returnData[l].json, KPos))
\* the output is the items of the pages, in the order they were sent
OutputIsPages ==
    /\ Len(returnData) = pageLog.items
    /\ \A k \in DOMAIN returnData :
          /\ returnData[k].kind = "data" /\ returnData[k].of = 0
          /\ Has(returnData[k].json, KId) =>
                AsInt(Get(returnData[k].json, KId)) \in 1..pageLog.pages
    /\ \A k, l \in DOMAIN returnData :
          (k < l /\ Has(returnData[k].json, KId) /\ Has(returnData[l].json, KId))
              => SentBefore(k, l)
    /\ pageLog.shape # Mixed =>
          returnData = DataRecords(returnJsonArray(PagesOfShape(pageLog.shape, pageLog.pages)), 0)

\* C19 (as stated): when the pagination loop of an item has ended, the output
\* is the items of all fetched pages, in page order and within a page in
\* response order, nothing lost and nothing twice; when no page held an item,
\* the output is the normalization of the last response.
C19_OutputOfLoop ==
    LoopClosed =>
        IF pageLog.items > 0 THEN OutputIsPages
        ELSE returnData = DataRecords(normalizeResponseData(LastLoopResponse), 0)

\* the same, but for a loop without items whose last response has an
\* undefined body
C19_OutputOfLoopUnlessUndefined ==
    (LoopClosed /\ ~(pageLog.items = 0 /\ LastLoopResponse = Undef)) => C19_OutputOfLoop

\* the placeholder of a path field of the operation is still in the url
PlaceholderLeft(url, operation) ==
    \E k \in DOMAIN url, i \in DOMAIN operation.pathUi :
        url[k] = [ph |-> operation.pathUi[i].name]

\* C23 (as stated): the url of every request execute has sent holds no
\* placeholder of a path field of the operation of its item.
C23_PathFullySubstituted ==
    \A k \in DOMAIN requests :
        ~PlaceholderLeft(requests[k].options.url, OperationOf(requests[k].item))

\* C24 (as stated): the pagination loop of an item ends after at most 1000
\* page requests, whatever the responses say: no loop has fetched more than
\* PageCeiling pages, and a loop that has fetched PageCeiling pages has ended.
C24_LoopEndsByCeiling ==
    LoopSeen =>
        /\ pageLog.pages <= PageCeiling
        /\ LoopOpen => pageLog.pages < PageCeiling

\* the request of a page after the first of item i has failed
FailedInLoop(i) ==
    \E k \in RequestsOf(i) : requests[k].failed /\ requests[k].first >= 2

\* C25: the records of an item are data records only, or one error record
\* and nothing else; an item in progress has no record yet; an item whose
\* page request failed in the middle of its loop has, with continueOnFail()
\* true, the error record only, and no record with continueOnFail() false.
C25_DataOrOneError ==
    \A i \in Processed :
        /\ \/ \A k \in RecordsOf(i) : returnData[k].kind = "data"
           \/ /\ Cardinality(RecordsOf(i)) = 1
              /\ \A k \in RecordsOf(i) : returnData[k].kind = "error"
        /\ (cur.active /\ itemIndex = i) => RecordsOf(i) = {}
        /\ FailedInLoop(i) =>
              IF continueOnFail
              THEN \E k \in DOMAIN returnData :
                      RecordsOf(i) = {k} /\ returnData[k] = ErrorRecord(TransportError, i)
              ELSE RecordsOf(i) = {}

\* the request of page 2 failed after page 1 had held an item, and the run
\* went on with the error record
C25_Witness ==
    /\ continueOnFail /\ FailedInLoop(0)
    /\ pageLog.state = "failed" /\ pageLog.items > 0
    /\ Cardinality(RecordsOf(0)) = 1

(***************************************************************************)
(* Properties of execute with its awaits.                                  *)
(***************************************************************************)
\* the request r is the one execute is waiting for
AwaitedNow(r) ==
    /\ r.item = itemIndex
    /\ \/ pc = "awaitSingle" /\ r.page = 0
       \/ pc = "awaitPage" /\ r.page = page
\* the pages of item i answered so far are 1, 2, ..., n without a gap
PagesAnsweredUpTo(i, n) ==
    LET answered == {k \in RequestsOf(i) : ~requests[k].failed}
    IN  IF n = 0 THEN answered = {}
        ELSE \E k \in answered :
                answered = {k} /\ requests[k].first = 1 /\ requests[k].last = n

\* C20: items are processed one after another: at most one request is in
\* flight; a request in flight is the one execute is waiting for, it belongs
\* to the item in progress, every request issued before it has been answered
\* or has failed and belongs to that item or to an earlier one, and a page
\* request is in flight only after the pages before it have been answered;
\* no request of an item is issued once execute has left the item; the
\* output records are in the order of the input items.
C20_OneAfterAnother ==
    /\ Cardinality(inFlight) <= 1
    /\ \A r \in inFlight :
          /\ AwaitedNow(r)
          /\ r.page >= 1 => PagesAnsweredUpTo(r.item, r.page - 1)
    /\ \A k \in DOMAIN requests : requests[k].item <= itemIndex
    /\ \A k, l \in DOMAIN requests : k < l => requests[k].item <= requests[l].item
    /\ pc \in {"item", "done", "thrown"} => inFlight = {}
    /\ \A k, l \in DOMAIN returnData : k < l => returnData[k].of <= returnData[l].of
    /\ returned.done => returned.data = returnData

\* a request of a page 2 of the second item is in flight after the first
\* item was answered and left a record
C20_Witness ==
    /\ inFlight = {[item |-> 1, page |-> 2]}
    /\ \E k \in DOMAIN requests : requests[k].item = 0
    /\ \E k \in DOMAIN returnData : returnData[k].of = 0

(***************************************************************************)
(* Properties of the functions applied on their own.                       *)
(***************************************************************************)
\* C12 (as stated): for every stored API token the Authorization header
\* starts with the exact prefix 'Bearer ', also when the token was entered
\* with the prefix in another letter case.
C12_HeaderStartsWithBearer ==
    pc = "fn-done" => StartsWith(fnRes, BearerPrefix)

\* the value is one of the empty values: undefined, null, a blank string, an
\* empty array, an object without keys
IsEmpty(value) ==
    value \in {Undef, Null, Str(""), Str(" "), Arr(<<>>), EmptyObj}
\* the value is the boolean false or reads as the number 0
IsZeroOrFalse(value) == value = Bool(FALSE) \/ ToNumber(value) = Whole(0)

\* C14: shouldIncludeSimpleQueryValue answers false only for a field that is
\* not required and a value that is empty, or that is a zero or the boolean
\* false while the field declares no default; it answers true for every
\* required field, and for an integer field with default 0 and value 0.
C14_OmissionLaw ==
    pc = "fn-done" /\ fnArg \in [field : IncludeFields, value : IncludeValues] =>
        /\ ~fnRes.included =>
              /\ ~fnArg.field.required
              /\ \/ IsEmpty(fnArg.value)
                 \/ IsZeroOrFalse(fnArg.value) /\ fnArg.field.default = Undef
        /\ fnArg.field.required => fnRes.included
        /\ (fnArg.field.schemaType = "integer" /\ fnArg.field.default = Whole(0)
               /\ fnArg.value = Whole(0)) => fnRes.included

\* the value 0 on an optional integer field without default was left out
C14_Witness ==
    /\ pc = "fn-done"
    /\ fnArg.field.schemaType = "integer" /\ ~fnArg.field.required
    /\ fnArg.field.default = Undef /\ fnArg.value = Whole(0)
    /\ ~fnRes.included

\* the rules of the continuation decision and what each of them answers
Numeric(value) == ~IsNaN(ToNumber(value))
Truthy(value) == value \notin {Undef, Null, NaN, Bool(FALSE), Whole(0), Str("")}
RuleCurrentLast(response) ==
    /\ isObject(response)
    /\ Numeric(Get(response, KCurrentPage)) /\ Numeric(Get(response, KLastPage))
    /\ Positive(ToNumber(Get(response, KLastPage)))
RulePageLast(response) ==
    /\ isObject(response)
    /\ Numeric(Get(response, TokPage)) /\ Numeric(Get(response, KLastPage))
    /\ Positive(ToNumber(Get(response, KLastPage)))
RuleNextPageUrl(response) == isObject(response) /\ Has(response, KNextPageUrl)
RuleLinksNext(response) ==
    /\ isObject(response) /\ Has(response, KLinks)
    /\ isObject(Get(response, KLinks)) /\ Has(Get(response, KLinks), KNext)
Before(a, b) == LessThan(ToNumber(a), ToNumber(b))

\* C17: hasMorePaginatedItems answers by the first applicable rule among
\* (a) current_page < last_page, (b) page < last_page, (c) next_page_url is
\* truthy, (d) links.next is truthy, (e) the page was full and is below page
\* 1000; a later rule never overrides an earlier applicable one.
C17_FirstApplicableRule ==
    pc = "fn-done" /\ fnArg \in HasMoreArguments =>
        LET response == fnArg.response
        IN  /\ RuleCurrentLast(response) =>
                  fnRes.more = Before(Get(response, KCurrentPage), Get(response, KLastPage))
            /\ (~RuleCurrentLast(response) /\ RulePageLast(response)) =>
                  fnRes.more = Before(Get(response, TokPage), Get(response, KLastPage))
            /\ (~RuleCurrentLast(response) /\ ~RulePageLast(response)
                   /\ RuleNextPageUrl(response)) =>
                  fnRes.more = Truthy(Get(response, KNextPageUrl))
            /\ (~RuleCurrentLast(response) /\ ~RulePageLast(response)
                   /\ ~RuleNextPageUrl(response) /\ RuleLinksNext(response)) =>
                  fnRes.more = Truthy(Get(Get(response, KLinks), KNext))
            /\ (~RuleCurrentLast(response) /\ ~RulePageLast(response)
                   /\ ~RuleNextPageUrl(response) /\ ~RuleLinksNext(response)) =>
                  fnRes.more = (fnArg.itemsCount >= fnArg.pageSize
                                   /\ fnArg.page < PageCeiling)

\* current_page < last_page made the loop go on although next_page_url is
\* null and the page held no item
C17_Witness ==
    /\ pc = "fn-done" /\ fnArg \in HasMoreArguments
    /\ isObject(fnArg.response)
    /\ Get(fnArg.response, KCurrentPage) = Whole(1)
    /\ Get(fnArg.response, KLastPage) = Whole(2)
    /\ Has(fnArg.response, KNextPageUrl) /\ Get(fnArg.response, KNextPageUrl) = Null
    /\ fnArg.itemsCount = 0
    /\ fnRes.more

\* what the assembler makes of child i of an object field, given the source
ChildResult(field, source, i) ==
    IF Has(source, bodyFieldParamName(OpCreate, field.children[i]))
    THEN parseBodyFieldValue(field.children[i],
                             Get(source, bodyFieldParamName(OpCreate, field.children[i])),
                             0, OpCreate)
    ELSE IF field.children[i].required
    THEN Throw(NodeOperationError("Missing required field", field.children[i].apiPath, 0))
    ELSE Ok(Undef)
\* what the assembler makes of the entries of an array field, in their order;
\* an entry of an array of primitives that is not an object is an undefined item
EntryResult(field, entry) ==
    IF field.itemField.kind # "primitive"
    THEN parseBodyFieldValue(field.itemField, entry, 0, OpCreate)
    ELSE IF ~isObject(entry) THEN Ok(Undef)
    ELSE parseBodyFieldValue(field.itemField,
                             Get(entry, bodyFieldParamName(OpCreate, field.itemField)),
                             0, OpCreate)
EntriesOf(rawValue) ==
    IF isObject(rawValue) /\ IsArray(Get(rawValue, TokItems))
    THEN Get(rawValue, TokItems).a ELSE <<>>
First(set) == CHOOSE i \in set : \A j \in set : i <= j
\* seq without the elements that are Undef
RECURSIVE Defined(_)
Defined(seq) ==
    IF seq = <<>> THEN <<>>
    ELSE IF Head(seq) = Undef THEN Defined(Tail(seq))
    ELSE <<Head(seq)>> \o Defined(Tail(seq))
\* value holds no {} and no [] at any depth
RECURSIVE NoEmptyContainer(_)
NoEmptyContainer(value) ==
    IF IsArray(value)
    THEN Len(value.a) > 0 /\ \A i \in DOMAIN value.a : NoEmptyContainer(value.a[i])
    ELSE IF isObject(value)
    THEN Keys(value) # {} /\ \A k \in Keys(value) : NoEmptyContainer(Get(value, k))
    ELSE TRUE

ObjectLaw(field, rawValue, result) ==
    LET source == IF isObject(rawValue) THEN rawValue ELSE EmptyObj
        results == [i \in DOMAIN field.children |-> ChildResult(field, source, i)]
        failing == {i \in DOMAIN results : results[i].err # NoError}
        kept == {i \in DOMAIN results : results[i].val # Undef}
    IN  IF failing # {} THEN result = Throw(results[First(failing)].err)
        ELSE IF kept = {}
        THEN result = IF field.required
                      THEN Throw(NodeOperationError("Missing required object",
                                                    field.apiPath, 0))
                      ELSE Ok(Undef)
        ELSE /\ result.err = NoError /\ isObject(result.val)
             /\ Keys(result.val) = {field.children[i].apiKey : i \in kept}
             /\ \A i \in kept : Get(result.val, field.children[i].apiKey) = results[i].val

ArrayLaw(field, rawValue, result) ==
    LET entries == EntriesOf(rawValue)
        results == [i \in DOMAIN entries |-> EntryResult(field, entries[i])]
        failing == {i \in DOMAIN results : results[i].err # NoError}
        kept == Defined([i \in DOMAIN results |-> results[i].val])
    IN  IF failing # {} THEN result = Throw(results[First(failing)].err)
        ELSE IF kept = <<>>
        THEN result = IF field.required
                      THEN Throw(NodeOperationError("Missing required array",
                                                    field.apiPath, 0))
                      ELSE Ok(Undef)
        ELSE result = Ok(Arr(kept))

\* C21: parseBodyFieldValue on an object field, when no child fails, returns
\* the object of the children that are present and parse to a defined value,
\* keyed by apiKey; when there is no such child it fails for a required field
\* and returns undefined otherwise.  On an array field, when no item fails, it
\* returns the items that parse to a defined value, in their order; when there
\* is none it fails for a required field and returns undefined otherwise.  A
\* failure of a child or of an item is the failure of the field.  The value
\* returned holds no {} and no [] at any depth.
C21_AssemblyOfObjectsAndArrays ==
    pc = "fn-done" =>
        /\ fnArg.field.kind = "object" => ObjectLaw(fnArg.field, fnArg.rawValue, fnRes)
        /\ fnArg.field.kind = "array" => ArrayLaw(fnArg.field, fnArg.rawValue, fnRes)
        /\ NoEmptyContainer(fnRes.val)

\* an optional array of two entries, both blank, was left out
C21_Witness ==
    /\ pc = "fn-done"
    /\ fnArg.field = TagsOf(KTags, FALSE, FALSE)
    /\ Len(EntriesOf(fnArg.rawValue)) = 2
    /\ \A i \in 1..2 : isObject(EntriesOf(fnArg.rawValue)[i])
    /\ fnRes = Ok(Undef)

\* value is a defined value of the type of a simple query field
OfSchemaType(value, schemaType) ==
    CASE schemaType = "string" -> IsString(value)
      [] schemaType = "boolean" -> value.t = "boolean"
      [] schemaType = "number" -> IsNumber(value) /\ ~IsNaN(value)
      [] schemaType = "integer" -> IsNumber(value) /\ ~IsNaN(value) /\ Trunc(value) = value

\* C22 (as stated): for every type of a simple query field and every value,
\* normalizeSimpleQueryValue returns a defined value of the type of the field,
\* and it returns what normalizePrimitiveValue returns whenever that is defined.
C22_QueryValueAlwaysDefined ==
    pc = "fn-done" =>
        /\ fnRes.query # Undef
        /\ OfSchemaType(fnRes.query, fnArg.schemaType)
        /\ fnRes.primitive # Undef => fnRes.query = fnRes.primitive

====
